---- MODULE Spec2Model ----
(***************************************************************************)
(* A model of the browser-driven brokerage client: Order.place_order       *)
(* (src/chase/order.py), ChaseSession.login / login_two / close_browser    *)
(* and the browser profile of a session (src/chase/session.py), and the    *)
(* fetches that intercept a response (src/chase/symbols.py, order.py,      *)
(* account.py).                                                            *)
(*                                                                         *)
(* The site is the environment.  Every page.find either yields the element *)
(* or times out (zendriver raises TimeoutError, an Exception), and a click *)
(* on a found element may fail as "not interactable"; each is a            *)
(* nondeterministic choice of the action that performs it.                 *)
(***************************************************************************)
EXTENDS Integers, Sequences, FiniteSets, TLC

VARIABLES
    order_pc,        \* position of _place_order_async
    price_type,      \* arguments of place_order ...
    duration,
    order_type,
    limit_price,
    stop_price,
    after_hours,
    dry_run,
    accept_warning,  \* Order.accept_warning
    i,               \* loop counter of the page-load loop
    order_messages,  \* the dict built and returned by place_order
    log,             \* site interactions made so far, in order
    shown,           \* optional elements the site displayed to a find
    missing,         \* required controls whose find/click failed inside a try
    result,          \* "running", "returned" or "raised"
    error,           \* message of the exception that reached the caller
    browser,         \* session.browser: "running" or "stopped"
    login_pc,        \* position of _login_async
    password,        \* session.password
    last_four,       \* argument of login, as the digits of str(last_four)
    url,             \* session.page.url
    polls,           \* passes made of the push-approval loop
    radio_buttons,   \* labels of the SMS radio group the site presented
    selected,        \* indexes set as selected-index, in order
    exc,             \* the exception caught by login's handler
    login_result,    \* "idle", "running", "returned" or "raised"
    login_value,     \* the value login returned
    login_error,     \* message of the exception login raised, as the parts
                     \* of its f-string
    loop_running,    \* session.loop is inside run_until_complete
    tasks,           \* tasks created on the loop and not yet run
    two_pc,          \* position of _login_two_async
    two_polls,       \* passes made of the landing-page loop of login_two
    two_result,      \* "idle", "running", "returned" or "raised"
    two_value,       \* the value login_two returned
    title,           \* session.title, for each session object
    profile_path,    \* session.profile_path
    user_data_dir,   \* the directory each session's browser was started on
    sess_pc,         \* "new", "open", "logged_in" or "closed", per session
    store,           \* what each browser profile directory holds
    seen,            \* what each session found in its directory at startup
    fetcher,         \* which intercepted-response fetch is running
    fetch_pc,        \* position in the fetch's statements
    waiter,          \* the response expectation: "none", "registered",
                     \* "fulfilled" or "removed"
    requests,        \* the matching request each page load gave rise to
    fetch_result,    \* "idle", "running", "returned", "failed" or "raised"
    fetch_value,     \* what the fetch returned, "" while it has not
    fetch_exc,       \* the exception the fetch met, "" when none
    body,            \* the decoded JSON body of the intercepted response
    status,          \* the HTTP status of the intercepted response
    raw_json,        \* SymbolHoldings.raw_json
    positions,       \* SymbolHoldings.positions
    assigned,        \* attributes of SymbolHoldings set by this call, in order
    acct_pc,         \* position of AllAccount.__init__
    all_account_info,    \* AllAccount.all_account_info
    account_connectors,  \* AllAccount.account_connectors
    total_value,         \* AllAccount.total_value
    total_value_change,  \* AllAccount.total_value_change
    old_json,        \* what get_investment_json returned
    new_json,        \* what get_investment_json_new returned
    reloads,         \* page.reload() calls made by AllAccount.__init__
    account_id,      \* AccountDetails.account_id
    original,        \* the envelope as it was handed to the parsers
    connector_runs,  \* results of the get_account_connectors calls made
    detail_runs,     \* AccountDetails after each get_account_details call
    symbols,         \* argument of TVfetch_technical_analysis
    threads,         \* its list of threads, as the position of each worker
    analysis_data,   \* what fetch_technical_analysis returned to each worker
    not_found,       \* the exchanges whose lookup raised, for each worker
    results,         \* the shared dict, as the set of its (key, value) pairs
    lock,            \* 0, or the worker that holds the lock
    tv_pc,           \* position of TVfetch_technical_analysis itself
    joined,          \* threads joined so far
    df               \* the frame returned, as the set of its rows

orderVars == <<order_pc, price_type, duration, order_type, limit_price,
               stop_price, after_hours, dry_run, accept_warning, i,
               order_messages, shown, missing>>

loginVars == <<login_pc, password, last_four, url, polls, radio_buttons,
               selected, exc, login_result, login_value, login_error,
               loop_running, tasks>>

twoVars == <<two_pc, two_polls, two_result, two_value>>

profileVars == <<title, profile_path, user_data_dir, sess_pc, store, seen>>

fetchVars == <<fetcher, fetch_pc, waiter, requests, fetch_result, fetch_value,
              fetch_exc, body, status, raw_json, positions, assigned>>

accountVars == <<acct_pc, all_account_info, account_connectors, total_value,
                total_value_change, old_json, new_json, reloads>>

parseVars == <<account_id, original, connector_runs, detail_runs>>

tvVars == <<symbols, threads, analysis_data, not_found, results, lock, tv_pc,
           joined, df>>

vars == <<orderVars, log, result, error, browser, loginVars, twoVars,
          profileVars, fetchVars, tvVars, accountVars, parseVars>>

\* what an action of place_order leaves alone besides the order's own state
notOrder == <<loginVars, twoVars, profileVars, fetchVars, tvVars, accountVars,
             parseVars>>

----------------------------------------------------------------------------
(* Enumerations of order.py *)

PriceType == {"LIMIT", "MARKET", "STOP", "STOP_LIMIT"}

Duration == {"DAY", "GOOD_TILL_CANCELLED", "ON_THE_OPEN", "ON_THE_CLOSE",
             "IMMEDIATE_OR_CANCEL"}

OrderSide == {"BUY", "SELL", "SELL_ALL"}

\* Prices a caller passes: 0 is the default 0.00 of the signature.
Prices == {0, 1}

Labels == {"ORDER INVALID", "WARNING", "ORDER PREVIEW", "AFTER HOURS WARNING",
           "ORDER CONFIRMATION"}

\* range(0, 4) of the page-load loop
LoadTries == 4

----------------------------------------------------------------------------
(* Selectors and fixed texts of _place_order_async *)

PreviewBtn == "#previewOrder"
AcceptBtn == ".button--primary"
SubmitBtn == "#submitOrder"
ConfirmBtn == "#confirmAfterHoursOrder"

InvalidBox == "#entry-trade-wrapper > div > div:nth-child(1) > div > div"
SoftWarning == "#previewSoftWarning > ul"
TradeWrapper == ".trade-wrapper"
AfterHoursModal == "#afterHoursModal > div.markets-message > div"
AlertTitle == ".alert__title-text"

PageLoaded == "Order page loaded correctly."
MarketInvalid == "Market orders must be DAY or ON THE CLOSE."
StopInvalid == "Stop orders must be DAY or GOOD TILL CANCELLED."
NoPreviewButton == "No preview button found or it is not interactable. Cannot continue."
NoInvalidMessage == "No invalid order message found."
NoWarningPage == "No warning page found."
NoPreviewPage == "No order preview page found."
NoAfterHoursPage == "No after hours warning page found."
AlertTextNotFound == "Alert Text not found."
NoConfirmationPage == "No order confirmation page found. Order Failed."

\* f"Order page did not load correctly cannot continue. Tried {i + 1} time(s)."
LoadFailed(n) ==
    "Order page did not load correctly cannot continue. Tried "
        \o ToString(n + 1) \o " time(s)."

\* Texts the site shows in the elements place_order reads.
InvalidText == "Insufficient buying power."
WarningText == "This order may execute at an unfavourable price."
PreviewText == "Buy 1 INTC at Market, Day"
AfterHoursText == "Markets are closed. Place the order for the next session?"
ConfirmationTexts == {"Order received", "Order\nreceived"}

\* order_confirmation.replace("\n", " ") on the texts above
ReplaceNewline(t) == IF t = "Order\nreceived" THEN "Order received" ELSE t

EmptyMessages == [l \in Labels |-> ""]

----------------------------------------------------------------------------
(* Helpers *)

Ev(op, target) == <<op, target>>

Clicked(target) == \E k \in DOMAIN log : log[k] = Ev("click", target)

\* return order_messages
Return(msgs) ==
    /\ order_messages' = msgs
    /\ order_pc' = "done"
    /\ result' = "returned"
    /\ error' = ""

\* an exception leaves _place_order_async; place_order has no handler of its
\* own, so run_until_complete re-raises it to the caller
Raise(msg) ==
    /\ order_pc' = "done"
    /\ result' = "raised"
    /\ error' = msg

Goto(pc) ==
    /\ order_pc' = pc
    /\ UNCHANGED <<result, error>>

inputs == <<price_type, duration, order_type, limit_price, stop_price,
            after_hours, dry_run, accept_warning>>

----------------------------------------------------------------------------
(* State after Order(session, accept_warning) and the call of place_order *)

\* The session while no login is in progress: ChaseSession.__init__ leaves
\* password "" and the loop stopped.
LoginIdle ==
    /\ login_pc = "idle"
    /\ password = ""
    /\ last_four = <<>>
    /\ url = "other"
    /\ polls = 0
    /\ radio_buttons = <<>>
    /\ selected = <<>>
    /\ exc = ""
    /\ login_result = "idle"
    /\ login_value = FALSE
    /\ login_error = <<>>
    /\ loop_running = FALSE
    /\ tasks = {}

\* No login_two in progress.
LoginTwoIdle ==
    /\ two_pc = "idle"
    /\ two_polls = 0
    /\ two_result = "idle"
    /\ two_value = FALSE

Sessions == 1..2

\* title=None
NoTitle == "<None>"

Titles == {NoTitle, "a", "b"}

\* values of the profile_path argument; "." is its default
Paths == {".", "p"}

\* anyio.Path(profile_path).resolve()
Resolve(path) == IF path = "." THEN "/cwd" ELSE "/cwd/" \o path

\* resolve(profile_path) / "ZenChase"
ProfileDir(path) == Resolve(path) \o "/ZenChase"

\* The fresh temporary profile a browser gets when started with
\* user_data_dir=None.
TempDir(s) == "/tmp/uc_" \o ToString(s)

\* user_data_dir=str(self.profile_path) if self.title else None, with
\* self.profile_path already replaced by the ZenChase directory
UserDataDir(s, t, path) == IF t # NoTitle THEN ProfileDir(path) ELSE TempDir(s)

Dirs == {ProfileDir(path) : path \in Paths} \cup {TempDir(s) : s \in Sessions}

\* No session object has been constructed and no profile directory written.
ProfileIdle ==
    /\ title = [s \in Sessions |-> NoTitle]
    /\ profile_path = [s \in Sessions |-> "."]
    /\ user_data_dir = [s \in Sessions |-> ""]
    /\ sess_pc = [s \in Sessions |-> "new"]
    /\ store = [d \in Dirs |-> "empty"]
    /\ seen = [s \in Sessions |-> "empty"]

FetchLoads == {"get", "reload"}

\* A decoded JSON body, as far as the readers look into it: the keys of the
\* top-level object, the positions list when it has one, and the entries of
\* its "cache" list.
NoBody == [keys |-> {}, positions |-> <<>>, cache |-> <<>>]

\* None, where an account-info envelope is expected.  An envelope is a list
\* of account items or an object that may hold one under
\* "investmentAccountDetails".
NoInfo == [shape |-> "None", details |-> FALSE, items |-> <<>>]

\* AccountDetails as __init__ leaves it before get_account_details runs
NewDetails == [exc |-> "", mask |-> "", account_value |-> -1]

\* No fetch in progress; SymbolHoldings as __init__ leaves it.
FetchIdle ==
    /\ fetcher = ""
    /\ fetch_pc = 0
    /\ waiter = "none"
    /\ requests = [l \in FetchLoads |-> "none"]
    /\ fetch_result = "idle"
    /\ fetch_value = ""
    /\ fetch_exc = ""
    /\ body = NoBody
    /\ status = 0
    /\ raw_json = NoBody
    /\ positions = <<>>
    /\ assigned = <<>>

\* No AllAccount under construction.
AccountIdle ==
    /\ acct_pc = "idle"
    /\ all_account_info = NoInfo
    /\ account_connectors = [exc |-> "", none |-> TRUE, dict |-> {}]
    /\ total_value = "None"
    /\ total_value_change = "None"
    /\ old_json = NoInfo
    /\ new_json = NoInfo
    /\ reloads = 0

\* No envelope handed to the parsers.
ParseIdle ==
    /\ account_id = ""
    /\ original = NoInfo
    /\ connector_runs = <<>>
    /\ detail_runs = <<>>

\* No call of TVfetch_technical_analysis in progress.
TVIdle ==
    /\ symbols = <<>>
    /\ threads = <<>>
    /\ analysis_data = <<>>
    /\ not_found = <<>>
    /\ results = {}
    /\ lock = 0
    /\ tv_pc = "idle"
    /\ joined = 0
    /\ df = {}

InitOrder ==
    /\ order_pc = "start"
    /\ price_type \in PriceType
    /\ duration \in Duration
    /\ order_type \in OrderSide
    /\ limit_price \in Prices
    /\ stop_price \in Prices
    /\ after_hours \in BOOLEAN
    /\ dry_run \in BOOLEAN
    /\ accept_warning \in BOOLEAN
    /\ i = 0
    /\ order_messages = EmptyMessages
    /\ log = <<>>
    /\ shown = {}
    /\ missing = {}
    /\ result = "running"
    /\ error = ""
    /\ browser = "running"
    /\ LoginIdle
    /\ LoginTwoIdle
    /\ ProfileIdle
    /\ FetchIdle
    /\ TVIdle
    /\ AccountIdle
    /\ ParseIdle

----------------------------------------------------------------------------
(* _place_order_async, one action per stage *)

QuoteBox == "#equitySymbolLookup-block-autocomplete-validate-input-field"

\* await self.session.page.get(order_page())
Navigate ==
    /\ order_pc = "start"
    /\ log' = Append(log, Ev("get", "order_page()"))
    /\ Goto("load")
    /\ UNCHANGED <<inputs, i, order_messages, shown, missing, browser, notOrder>>

\* A pass of the loop without the check that follows it: the flow goes on
\* to the side selection after the last failure too.
LoadAttemptUnchecked ==
    /\ order_pc = "load"
    /\ \E o \in {"ok", "no_form", "no_quote"} :
         LET nav == log \o <<Ev("get", "order_page(account_id)"), Ev("reload", "page")>>
             typed == nav \o <<Ev("send_keys", QuoteBox)>>
         IN
         /\ log' = IF o = "no_form" THEN nav ELSE typed
         /\ order_messages' =
                [order_messages EXCEPT
                   !["ORDER INVALID"] = IF o = "ok" THEN PageLoaded
                                        ELSE LoadFailed(i)]
         /\ IF o # "ok" /\ i + 1 < LoadTries
            THEN i' = i + 1 /\ Goto("load")
            ELSE i' = i /\ Goto("side")
    /\ UNCHANGED <<inputs, shown, missing, browser, notOrder>>

\* One pass of `for i in range(0, 4)`, with the check that follows the loop.
\* The pass navigates and reloads, waits for the order form, types the symbol
\* and waits for the quote; any timeout in it is caught and reported under
\* ORDER INVALID.  (The probe for "#element-id" has a bare except and changes
\* nothing.)
LoadAttempt ==
    /\ order_pc = "load"
    /\ \E o \in {"ok", "no_form", "no_quote"} :
         LET nav == log \o <<Ev("get", "order_page(account_id)"), Ev("reload", "page")>>
             typed == nav \o <<Ev("send_keys", QuoteBox)>>
             failed == [order_messages EXCEPT !["ORDER INVALID"] = LoadFailed(i)]
         IN
         IF o = "ok"
         THEN /\ log' = typed
              /\ order_messages' =
                     [order_messages EXCEPT !["ORDER INVALID"] = PageLoaded]
              /\ i' = i
              /\ Goto("side")
         ELSE /\ log' = IF o = "no_form" THEN nav ELSE typed
              /\ IF i + 1 < LoadTries
                 THEN /\ i' = i + 1
                      /\ order_messages' = failed
                      /\ Goto("load")
                 ELSE /\ i' = i
                      /\ Return(failed)
    /\ UNCHANGED <<inputs, shown, missing, browser, notOrder>>

SideLabel(side) ==
    CASE side = "BUY" -> "Buy"
      [] side = "SELL" -> "Sell"
      [] side = "SELL_ALL" -> "Sell All"

\* if order_type == "BUY": ... elif "SELL" ... elif "SELL_ALL" ...
\* The find has no handler: a timeout reaches the caller.
SelectSide ==
    /\ order_pc = "side"
    /\ \E found \in BOOLEAN :
         IF found
         THEN /\ log' = Append(log, Ev("click", SideLabel(order_type)))
              /\ Goto("price_type")
         ELSE /\ log' = log
              /\ Raise("TimeoutError")
    /\ UNCHANGED <<inputs, i, order_messages, shown, missing, browser, notOrder>>

PriceLabel(pt) ==
    CASE pt = "LIMIT" -> "Limit"
      [] pt = "MARKET" -> "Market"
      [] pt = "STOP" -> "Stop"
      [] pt = "STOP_LIMIT" -> "Stop Limit"

\* InvalidCombination with the STOP_LIMIT branch testing the MARKET durations
InvalidCombinationWrongList(pt, d) ==
    CASE pt = "MARKET" /\ d \notin {"DAY", "ON_THE_CLOSE"} -> MarketInvalid
      [] pt = "STOP" /\ d \notin {"DAY", "GOOD_TILL_CANCELLED"} -> StopInvalid
      [] pt = "STOP_LIMIT" /\ d \notin {"DAY", "ON_THE_CLOSE"} -> StopInvalid
      [] OTHER -> ""

\* The validation text for a (price_type, duration) pair, "" when the pair
\* passes: the three `if duration not in [...]` tests.
InvalidCombination(pt, d) ==
    CASE pt = "MARKET" /\ d \notin {"DAY", "ON_THE_CLOSE"} -> MarketInvalid
      [] pt = "STOP" /\ d \notin {"DAY", "GOOD_TILL_CANCELLED"} -> StopInvalid
      [] pt = "STOP_LIMIT" /\ d \notin {"DAY", "GOOD_TILL_CANCELLED"} -> StopInvalid
      [] OTHER -> ""

\* Click the price-type label, then validate the duration against it.
SelectPriceType ==
    /\ order_pc = "price_type"
    /\ \E found \in BOOLEAN :
         IF found
         THEN /\ log' = Append(log, Ev("click", PriceLabel(price_type)))
              /\ IF InvalidCombination(price_type, duration) # ""
                 THEN Return([order_messages EXCEPT !["ORDER INVALID"] =
                                  InvalidCombination(price_type, duration)])
                 ELSE /\ Goto("prices")
                      /\ UNCHANGED order_messages
         ELSE /\ log' = log
              /\ UNCHANGED order_messages
              /\ Raise("TimeoutError")
    /\ UNCHANGED <<inputs, i, shown, missing, browser, notOrder>>

LimitField == "#tradeLimitPrice-text-input-field"
StopField == "#tradeStopPrice-text-input-field"
QuantityField == "#tradeQuantity-text-input-field"

\* The fields _place_order_async types a price into, in order; the value typed
\* is str(limit_price) / str(stop_price), whatever the price is.
PriceFields(pt) ==
    (IF pt \in {"LIMIT", "STOP_LIMIT"} THEN <<Ev("send_keys", LimitField)>> ELSE <<>>)
    \o (IF pt \in {"STOP", "STOP_LIMIT"} THEN <<Ev("send_keys", StopField)>> ELSE <<>>)

\* Type the prices and the quantity.  No find here has a handler.
FillFields ==
    /\ order_pc = "prices"
    /\ \E found \in BOOLEAN :
         IF found
         THEN /\ log' = log \o PriceFields(price_type)
                            \o <<Ev("send_keys", QuantityField)>>
              /\ Goto("duration")
         ELSE /\ log' = log
              /\ Raise("TimeoutError")
    /\ UNCHANGED <<inputs, i, order_messages, shown, missing, browser, notOrder>>

DurationClicks(d) ==
    CASE d = "DAY" -> <<Ev("click", "Day")>>
      [] d = "GOOD_TILL_CANCELLED" -> <<Ev("click", "Good 'til canceled")>>
      [] d = "ON_THE_OPEN" -> <<Ev("click", "On open")>>
      [] d = "ON_THE_CLOSE" -> <<Ev("click", "On close")>>
      [] d = "IMMEDIATE_OR_CANCEL" ->
             <<Ev("click", "#tradeExecutionOptions-iconwrap"),
               Ev("click", "Immediate or Cancel")>>

SelectDuration ==
    /\ order_pc = "duration"
    /\ \E found \in BOOLEAN :
         IF found
         THEN /\ log' = log \o DurationClicks(duration)
              /\ Goto("preview_btn")
         ELSE /\ log' = log
              /\ Raise("TimeoutError")
    /\ UNCHANGED <<inputs, i, order_messages, shown, missing, browser, notOrder>>

\* RequestPreview with the failure swallowed: the flow goes on without a preview.
RequestPreviewSwallowed ==
    /\ order_pc = "preview_btn"
    /\ \E o \in {"ok", "no_find", "no_click"} :
         /\ log' = IF o = "ok" THEN Append(log, Ev("click", PreviewBtn)) ELSE log
         /\ missing' = IF o = "ok" THEN missing ELSE missing \cup {PreviewBtn}
         /\ Goto("invalid_msg")
    /\ UNCHANGED <<inputs, i, order_messages, shown, browser, notOrder>>

\* try: find("#previewOrder", timeout=5); click()
\* except Exception: raise Exception("No preview button found ...")
\* This try is not nested in another: the exception leaves the coroutine.
RequestPreview ==
    /\ order_pc = "preview_btn"
    /\ \E o \in {"ok", "no_find", "no_click"} :
         IF o = "ok"
         THEN /\ log' = Append(log, Ev("click", PreviewBtn))
              /\ missing' = missing
              /\ Goto("invalid_msg")
         ELSE /\ log' = log
              /\ missing' = missing \cup {PreviewBtn}
              /\ Raise(NoPreviewButton)
    /\ UNCHANGED <<inputs, i, order_messages, shown, browser, notOrder>>

\* InvalidStage with the missing box treated as an error.
InvalidStageFatal ==
    /\ order_pc = "invalid_msg"
    /\ \E found \in BOOLEAN :
         IF found
         THEN /\ shown' = shown \cup {InvalidBox}
              /\ Return([order_messages EXCEPT !["ORDER INVALID"] = InvalidText])
         ELSE /\ UNCHANGED <<shown, order_messages>>
              /\ Raise(NoInvalidMessage)
    /\ UNCHANGED <<inputs, i, log, missing, browser, notOrder>>

\* InvalidStage that records the text of the box and goes on.
InvalidStageGoesOn ==
    /\ order_pc = "invalid_msg"
    /\ \E found \in BOOLEAN :
         /\ shown' = IF found THEN shown \cup {InvalidBox} ELSE shown
         /\ order_messages' =
                [order_messages EXCEPT
                   !["ORDER INVALID"] = IF found THEN InvalidText
                                        ELSE NoInvalidMessage]
         /\ Goto("warning")
    /\ UNCHANGED <<inputs, i, log, missing, browser, notOrder>>

\* The site's invalid-order box: its text is returned under ORDER INVALID;
\* a timeout is recorded and the flow goes on.
InvalidStage ==
    /\ order_pc = "invalid_msg"
    /\ \E found \in BOOLEAN :
         IF found
         THEN /\ shown' = shown \cup {InvalidBox}
              /\ Return([order_messages EXCEPT !["ORDER INVALID"] = InvalidText])
         ELSE /\ shown' = shown
              /\ order_messages' =
                     [order_messages EXCEPT !["ORDER INVALID"] = NoInvalidMessage]
              /\ Goto("warning")
    /\ UNCHANGED <<inputs, i, log, missing, browser, notOrder>>

\* The soft-warning try block.  page is "no_overlay" (the overlay find timed
\* out), "no_handle" (the warning list timed out), "none_handle" (the find
\* gave None) or "shown".  `accept` is self.accept_warning.  The raise for a
\* missing accept button is inside the outer try, whose `except Exception`
\* catches it, records "No warning page found." and lets the flow go on.
WarningStageOn(accept) ==
    /\ order_pc = "warning"
    /\ \E page \in {"no_overlay", "no_handle", "none_handle", "shown"},
          btn \in {"ok", "no_find", "no_click"} :
         IF page # "shown"
         THEN /\ order_messages' = [order_messages EXCEPT !["WARNING"] = NoWarningPage]
              /\ UNCHANGED <<log, shown, missing>>
              /\ Goto("order_preview")
         ELSE /\ shown' = shown \cup {SoftWarning}
              /\ IF accept
                 THEN IF btn = "ok"
                      THEN /\ log' = Append(log, Ev("click", AcceptBtn))
                           /\ missing' = missing
                           /\ order_messages' =
                                  [order_messages EXCEPT !["WARNING"] = WarningText]
                           /\ Goto("order_preview")
                      ELSE /\ log' = log
                           /\ missing' = missing \cup {AcceptBtn}
                           /\ order_messages' =
                                  [order_messages EXCEPT !["WARNING"] = NoWarningPage]
                           /\ Goto("order_preview")
                 ELSE /\ UNCHANGED <<log, missing>>
                      /\ Return([order_messages EXCEPT !["WARNING"] = WarningText])
    /\ UNCHANGED <<inputs, i, browser, notOrder>>

\* WarningStage with the accept_warning test lost
WarningStageAlwaysAccepts == WarningStageOn(TRUE)

WarningStage == WarningStageOn(accept_warning)

\* The order-preview try block.  `submit` is `not dry_run`.  A missing
\* .trade-wrapper, and the raise for a missing submit button, both end in the
\* outer `except Exception`, which records "No order preview page found." and
\* lets the flow go on to the after-hours stage.
PreviewStageOn(submit) ==
    /\ order_pc = "order_preview"
    /\ \E found \in BOOLEAN, btn \in {"ok", "no_find", "no_click"} :
         IF ~found
         THEN /\ order_messages' =
                     [order_messages EXCEPT !["ORDER PREVIEW"] = NoPreviewPage]
              /\ UNCHANGED <<log, shown, missing>>
              /\ Goto("after_hours")
         ELSE /\ shown' = shown \cup {TradeWrapper}
              /\ IF submit
                 THEN IF btn = "ok"
                      THEN /\ log' = Append(log, Ev("click", SubmitBtn))
                           /\ missing' = missing
                           /\ order_messages' =
                                  [order_messages EXCEPT !["ORDER PREVIEW"] = PreviewText]
                           /\ Goto("after_hours")
                      ELSE /\ log' = log
                           /\ missing' = missing \cup {SubmitBtn}
                           /\ order_messages' =
                                  [order_messages EXCEPT !["ORDER PREVIEW"] = NoPreviewPage]
                           /\ Goto("after_hours")
                 ELSE /\ UNCHANGED <<log, missing>>
                      /\ Return([order_messages EXCEPT !["ORDER PREVIEW"] = PreviewText])
    /\ UNCHANGED <<inputs, i, browser, notOrder>>

\* PreviewStage with the dry_run test lost
PreviewStageAlwaysSubmits == PreviewStageOn(TRUE)

PreviewStage == PreviewStageOn(~dry_run)

\* The after-hours try block, of the same shape: `confirm` is after_hours.
AfterHoursStageOn(confirm) ==
    /\ order_pc = "after_hours"
    /\ \E found \in BOOLEAN, btn \in {"ok", "no_find", "no_click"} :
         IF ~found
         THEN /\ order_messages' =
                     [order_messages EXCEPT !["AFTER HOURS WARNING"] = NoAfterHoursPage]
              /\ UNCHANGED <<log, shown, missing>>
              /\ Goto("confirmation")
         ELSE /\ shown' = shown \cup {AfterHoursModal}
              /\ IF confirm
                 THEN IF btn = "ok"
                      THEN /\ log' = Append(log, Ev("click", ConfirmBtn))
                           /\ missing' = missing
                           /\ order_messages' =
                                  [order_messages EXCEPT
                                      !["AFTER HOURS WARNING"] = AfterHoursText]
                           /\ Goto("confirmation")
                      ELSE /\ log' = log
                           /\ missing' = missing \cup {ConfirmBtn}
                           /\ order_messages' =
                                  [order_messages EXCEPT
                                      !["AFTER HOURS WARNING"] = NoAfterHoursPage]
                           /\ Goto("confirmation")
                 ELSE /\ UNCHANGED <<log, missing>>
                      /\ Return([order_messages EXCEPT
                                    !["AFTER HOURS WARNING"] = AfterHoursText])
    /\ UNCHANGED <<inputs, i, browser, notOrder>>

AfterHoursStage == AfterHoursStageOn(after_hours)

\* The confirmation try block: every path returns.
ConfirmationStage ==
    /\ order_pc = "confirmation"
    /\ \E page \in {"no_box", "no_title", "none_title", "shown"},
          text \in ConfirmationTexts :
         CASE page \in {"no_box", "no_title"} ->
                  /\ shown' = shown
                  /\ Return([order_messages EXCEPT
                                !["ORDER CONFIRMATION"] = NoConfirmationPage])
           [] page = "none_title" ->
                  /\ shown' = shown
                  /\ Return([order_messages EXCEPT
                                !["ORDER CONFIRMATION"] = AlertTextNotFound])
           [] page = "shown" ->
                  /\ shown' = shown \cup {AlertTitle}
                  /\ Return([order_messages EXCEPT
                                !["ORDER CONFIRMATION"] = ReplaceNewline(text)])
    /\ UNCHANGED <<inputs, i, log, missing, browser, notOrder>>

NextOrder ==
    \/ Navigate
    \/ LoadAttempt
    \/ SelectSide
    \/ SelectPriceType
    \/ FillFields
    \/ SelectDuration
    \/ RequestPreview
    \/ InvalidStage
    \/ WarningStage
    \/ PreviewStage
    \/ AfterHoursStage
    \/ ConfirmationStage

SpecOrder == InitOrder /\ [][NextOrder]_vars

----------------------------------------------------------------------------
(* ChaseSession.login and close_browser *)

\* Page identities of urls.py as page.url can show them; "landing+" is a URL
\* that has the landing-page URL as a proper substring.
Urls == {"login", "landing", "landing+", "optout", "other"}

\* landing_page() in self.page.url
OnLanding(u) == u \in {"landing", "landing+"}

\* opt_out_verification_page() in self.page.url
OnOptOut(u) == u = "optout"

\* range(120) of the push-approval loop
PushPolls == 120

\* Most options an SMS radio group or a legacy dropdown presents.
MaxButtons == 2

\* str(last_four), as its digits: <<1>> is a number that prints shorter than
\* the suffixes the site shows.
LastFours == {<<1, 2>>, <<2, 1>>, <<1>>}

\* The digits after "xxx-xxx-" in a radio button's label, or the digits a
\* legacy dropdown item shows.
LabelDigits == {<<1, 2>>, <<2, 1>>, <<1, 1>>}

ButtonLists == UNION {[1..n -> LabelDigits] : n \in 0..MaxButtons}

Passwords == {"secret"}

\* f"xxx-xxx-{last_four}" in label, for a label "xxx-xxx-" + digits
LabelMatches(lf, digits) ==
    /\ Len(lf) <= Len(digits)
    /\ SubSeq(digits, 1, Len(lf)) = lf

\* str(last_four) in text
TextContains(lf, digits) ==
    \E k \in 0..(Len(digits) - Len(lf)) : SubSeq(digits, k + 1, k + Len(lf)) = lf

\* The index the loop would act on if it had no `break`: the last match.
LastMatch(hits) ==
    IF hits = {} THEN <<>>
    ELSE <<(CHOOSE k \in hits : \A h \in hits : k >= h) - 1>>

\* The index (from 0, as enumerate gives it) that
\* `for index, button in enumerate(...): if <match>: ...; break` acts on, as a
\* sequence of at most one element; `hits` are the positions (from 1) of the
\* entries that match.
FirstMatch(hits) ==
    IF hits = {} THEN <<>>
    ELSE <<(CHOOSE k \in hits : \A h \in hits : k <= h) - 1>>

InitLogin ==
    /\ order_pc = "idle"
    /\ price_type = "MARKET"
    /\ duration = "DAY"
    /\ order_type = "BUY"
    /\ limit_price = 0
    /\ stop_price = 0
    /\ after_hours = TRUE
    /\ dry_run = TRUE
    /\ accept_warning = TRUE
    /\ i = 0
    /\ order_messages = EmptyMessages
    /\ log = <<>>
    /\ shown = {}
    /\ missing = {}
    /\ result = "idle"
    /\ error = ""
    /\ browser = "running"
    /\ login_pc = "start"
    /\ password = ""
    /\ last_four \in LastFours
    /\ url = "other"
    /\ polls = 0
    /\ radio_buttons = <<>>
    /\ selected = <<>>
    /\ exc = ""
    /\ login_result = "running"
    /\ login_value = FALSE
    /\ login_error = <<>>
    /\ loop_running = TRUE
    /\ tasks = {}
    /\ LoginTwoIdle
    /\ ProfileIdle
    /\ FetchIdle
    /\ TVIdle
    /\ AccountIdle
    /\ ParseIdle

orderState == <<orderVars, result, error>>

\* what an action of login leaves alone besides the login's own state
notLogin == <<orderState, twoVars, profileVars, fetchVars, tvVars,
             accountVars, parseVars>>

\* return <value> from _login_async: run_until_complete hands it to the caller
LoginReturn(value) ==
    /\ login_pc' = "done"
    /\ login_result' = "returned"
    /\ login_value' = value
    /\ loop_running' = FALSE
    /\ UNCHANGED <<exc, login_error>>

\* an exception is raised inside the outer try of _login_async
LoginExcept(msg) ==
    /\ login_pc' = "except"
    /\ exc' = msg
    /\ UNCHANGED <<login_result, login_value, login_error, loop_running>>

LoginGoto(pc) ==
    /\ login_pc' = pc
    /\ UNCHANGED <<exc, login_result, login_value, login_error, loop_running>>

\* self.password = r"" + password; page.get(login_page()); sleep(2)
LoginStart ==
    /\ login_pc = "start"
    /\ \E pw \in Passwords : password' = pw
    /\ url' = "login"
    /\ log' = Append(log, Ev("get", "login_page()"))
    /\ LoginGoto("credentials")
    /\ UNCHANGED <<notLogin, browser, last_four, polls, radio_buttons,
                   selected, tasks>>

\* Find the two fields, type the credentials, click sign in, sleep(3).
\* "none": a find gave a falsy value; "timeout": the find of a field timed
\* out; "no_signin": the sign-in button did.
SubmitCredentials ==
    /\ login_pc = "credentials"
    /\ \E o \in {"ok", "none", "timeout", "no_signin"}, u \in Urls :
         LET typed == log \o <<Ev("send_keys", "#userId-input-field-input"),
                               Ev("send_keys", "#password-input-field-input")>>
         IN
         CASE o = "ok" ->
                  /\ log' = Append(typed, Ev("click", "#signin-button"))
                  /\ url' = u
                  /\ LoginGoto("landing_check")
           [] o = "none" ->
                  /\ UNCHANGED <<log, url>>
                  /\ LoginExcept("Could not find username or password fields.")
           [] o = "timeout" ->
                  /\ UNCHANGED <<log, url>>
                  /\ LoginExcept("TimeoutError")
           [] o = "no_signin" ->
                  /\ log' = typed
                  /\ url' = url
                  /\ LoginExcept("TimeoutError")
    /\ UNCHANGED <<notLogin, browser, password, last_four, polls,
                   radio_buttons, selected, tasks>>

\* The step after the credentials with the landing test left out.
LandingCheckSkipped ==
    /\ login_pc = "landing_check"
    /\ LoginGoto("options_list")
    /\ UNCHANGED <<notLogin, browser, log, password, last_four, url, polls,
                   radio_buttons, selected, tasks>>

\* if landing_page() in self.page.url: return False
LandingCheck ==
    /\ login_pc = "landing_check"
    /\ IF OnLanding(url) THEN LoginReturn(FALSE) ELSE LoginGoto("options_list")
    /\ UNCHANGED <<notLogin, browser, log, password, last_four, url, polls,
                   radio_buttons, selected, tasks>>

\* find("#optionsList", timeout=15), select_all("#optionsList *"), the JS
\* click on the first "Get a text" / "push notification" element, sleep(1).
\* A timeout of either lookup is caught by the `except TimeoutError` that
\* starts the old 2FA flow; a falsy options_list skips the whole block.
ProbeOptionsList ==
    /\ login_pc = "options_list"
    /\ \E o \in {"timeout", "falsy", "no_elements", "found"},
          option \in BOOLEAN, u \in Urls :
         /\ url' = u
         /\ CASE o \in {"timeout", "no_elements"} ->
                     /\ log' = Append(log, Ev("find", "#optionsList"))
                     /\ LoginGoto("legacy")
              [] o = "falsy" ->
                     /\ log' = Append(log, Ev("find", "#optionsList"))
                     /\ LoginGoto("optout")
              [] o = "found" ->
                     /\ log' = log \o <<Ev("find", "#optionsList")>>
                                   \o (IF option THEN <<Ev("click", "2FA option")>>
                                       ELSE <<>>)
                     /\ LoginGoto("push")
    /\ UNCHANGED <<notLogin, browser, password, last_four, polls,
                   radio_buttons, selected, tasks>>

\* approve_text = find("text=approve", timeout=2); a timeout is passed over.
ProbePush ==
    /\ login_pc = "push"
    /\ \E o \in {"timeout", "falsy", "found"}, u \in Urls :
         /\ url' = u
         /\ log' = Append(log, Ev("find", "text=approve"))
         /\ polls' = 0
         /\ IF o = "found" THEN LoginGoto("push_wait") ELSE LoginGoto("sms")
    /\ UNCHANGED <<notLogin, browser, password, last_four, radio_buttons,
                   selected, tasks>>

\* One pass of the push-approval loop with the landing test left out.
PollPushBlind ==
    /\ login_pc = "push_wait"
    /\ polls < PushPolls
    /\ \E u \in Urls :
         /\ url' = u
         /\ polls' = polls + 1
         /\ LoginGoto(IF polls + 1 = PushPolls THEN "sms" ELSE "push_wait")
    /\ UNCHANGED <<notLogin, browser, log, password, last_four,
                   radio_buttons, selected, tasks>>

\* One pass of `for _ in range(120)`: sleep(1), then the landing test.  When
\* the range is used up the loop ends and the text-message flow follows.
PollPush ==
    /\ login_pc = "push_wait"
    /\ polls < PushPolls
    /\ \E u \in Urls :
         /\ url' = u
         /\ polls' = polls + 1
         /\ IF OnLanding(u)
            THEN LoginReturn(FALSE)
            ELSE LoginGoto(IF polls + 1 = PushPolls THEN "sms" ELSE "push_wait")
    /\ UNCHANGED <<notLogin, browser, log, password, last_four,
                   radio_buttons, selected, tasks>>

\* The text-message flow giving up with False when no button matches.
SmsFlowNeedsMatch ==
    /\ login_pc = "sms"
    /\ \E o \in {"timeout", "falsy", "found"}, buttons \in ButtonLists,
          next \in BOOLEAN, u \in Urls :
         LET pick == FirstMatch({k \in DOMAIN buttons :
                                   LabelMatches(last_four, buttons[k])})
             probed == Append(log, Ev("find", "mds-radio-group"))
         IN
         IF o # "found"
         THEN /\ log' = probed
              /\ url' = u
              /\ UNCHANGED <<radio_buttons, selected>>
              /\ LoginGoto("optout")
         ELSE /\ radio_buttons' = buttons
              /\ selected' = selected \o pick
              /\ IF pick = <<>>
                 THEN /\ log' = probed
                      /\ url' = url
                      /\ LoginReturn(FALSE)
                 ELSE IF next
                 THEN /\ log' = Append(probed, Ev("click", "#next-content"))
                      /\ url' = url
                      /\ LoginReturn(TRUE)
                 ELSE /\ log' = probed
                      /\ url' = u
                      /\ LoginGoto("optout")
    /\ UNCHANGED <<notLogin, browser, password, last_four, polls, tasks>>

\* The text-message flow: find the radio group, set selected-index to the
\* first button whose label holds the suffix, click #next-content, return
\* True.  A timeout of the radio group or of the Next button is passed over.
SmsFlow ==
    /\ login_pc = "sms"
    /\ \E o \in {"timeout", "falsy", "found"}, buttons \in ButtonLists,
          next \in BOOLEAN, u \in Urls :
         LET pick == FirstMatch({k \in DOMAIN buttons :
                                   LabelMatches(last_four, buttons[k])})
             probed == Append(log, Ev("find", "mds-radio-group"))
         IN
         IF o # "found"
         THEN /\ log' = probed
              /\ url' = u
              /\ UNCHANGED <<radio_buttons, selected>>
              /\ LoginGoto("optout")
         ELSE /\ radio_buttons' = buttons
              /\ selected' = selected \o pick
              /\ IF next
                 THEN /\ log' = Append(probed, Ev("click", "#next-content"))
                      /\ url' = url
                      /\ LoginReturn(TRUE)
                 ELSE /\ log' = probed
                      /\ url' = u
                      /\ LoginGoto("optout")
    /\ UNCHANGED <<notLogin, browser, password, last_four, polls, tasks>>

LegacyDropdown == "#header-simplerAuth-dropdownoptions-styledselect"

\* The old 2FA flow: open the dropdown, click the first item whose text holds
\* str(last_four), click submit, return True; its timeouts are passed over.
LegacyFlow ==
    /\ login_pc = "legacy"
    /\ \E found \in BOOLEAN, items \in ButtonLists, submit \in BOOLEAN,
          u \in Urls :
         LET pick == FirstMatch({k \in DOMAIN items :
                                   TextContains(last_four, items[k])})
             probed == Append(log, Ev("find", LegacyDropdown))
             opened == Append(probed, Ev("click", LegacyDropdown))
         IN
         IF ~found
         THEN /\ log' = probed
              /\ url' = u
              /\ UNCHANGED <<radio_buttons, selected>>
              /\ LoginGoto("optout")
         ELSE /\ radio_buttons' = items
              /\ selected' = selected \o pick
              /\ IF submit
                 THEN /\ log' = Append(opened, Ev("click", "button[type=submit]"))
                      /\ url' = url
                      /\ LoginReturn(TRUE)
                 ELSE /\ log' = opened
                      /\ url' = u
                      /\ LoginGoto("optout")
    /\ UNCHANGED <<notLogin, browser, password, last_four, polls, tasks>>

UnknownPageState == "Login failed due to an unknown page state."

\* The opt-out page (two clicks, whose finds have no local handler), then
\* the final check: return False on the landing page, raise otherwise.
OptOutAndFinalCheck ==
    /\ login_pc = "optout"
    /\ \E buttons \in BOOLEAN, u \in Urls :
         IF OnOptOut(url)
         THEN IF buttons
              THEN /\ log' = log \o <<Ev("click", "Skip this step next time"),
                                      Ev("click", "Save and go to account")>>
                   /\ url' = u
                   /\ IF OnLanding(u)
                      THEN LoginReturn(FALSE)
                      ELSE LoginExcept(UnknownPageState)
              ELSE /\ UNCHANGED <<log, url>>
                   /\ LoginExcept("TimeoutError")
         ELSE /\ UNCHANGED <<log, url>>
              /\ IF OnLanding(url)
                 THEN LoginReturn(FALSE)
                 ELSE LoginExcept(UnknownPageState)
    /\ UNCHANGED <<notLogin, browser, password, last_four, polls,
                   radio_buttons, selected, tasks>>

\* The handler with the task that close_browser returns left unawaited.
HandlerCloseBrowserNotAwaited ==
    /\ login_pc = "except"
    /\ tasks' = tasks \cup {"_close_browser_async"}
    /\ LoginGoto("reraise")
    /\ UNCHANGED <<notLogin, browser, log, password, last_four, url, polls,
                   radio_buttons, selected>>

\* except Exception as e: await self.close_browser() -- the call.
\* close_browser tries loop.run_until_complete; the loop is the one running
\* _login_async, so that raises RuntimeError("This event loop is already
\* running") before the coroutine is scheduled, and close_browser returns
\* asyncio.create_task(self._close_browser_async()), which the handler awaits.
HandlerCloseBrowser ==
    /\ login_pc = "except"
    /\ loop_running
    /\ tasks' = tasks \cup {"_close_browser_async"}
    /\ LoginGoto("await_close")
    /\ UNCHANGED <<notLogin, browser, log, password, last_four, url, polls,
                   radio_buttons, selected>>

\* The awaited task runs: if self.browser: await self.browser.stop()
AwaitCloseBrowser ==
    /\ login_pc = "await_close"
    /\ "_close_browser_async" \in tasks
    /\ tasks' = tasks \ {"_close_browser_async"}
    /\ browser' = "stopped"
    /\ LoginGoto("reraise")
    /\ UNCHANGED <<notLogin, log, password, last_four, url, polls,
                   radio_buttons, selected>>

\* traceback.print_exc(); raise Exception(f"Error in first step of login into Chase: {e}")
LoginReraise ==
    /\ login_pc = "reraise"
    /\ login_pc' = "done"
    /\ login_result' = "raised"
    /\ login_error' = <<"Error in first step of login into Chase: ", exc>>
    /\ loop_running' = FALSE
    /\ UNCHANGED <<notLogin, browser, log, password, last_four, url, polls,
                   radio_buttons, selected, exc, login_value, tasks>>

\* The caller's close_browser() after login, as the scripts do: the loop is
\* not running, so run_until_complete runs _close_browser_async to its end.
CloseBrowser ==
    /\ login_pc = "done"
    /\ ~loop_running
    /\ browser = "running"
    /\ browser' = "stopped"
    /\ UNCHANGED <<notLogin, log, loginVars>>

NextLogin ==
    \/ LoginStart
    \/ SubmitCredentials
    \/ LandingCheck
    \/ ProbeOptionsList
    \/ ProbePush
    \/ PollPush
    \/ SmsFlow
    \/ LegacyFlow
    \/ OptOutAndFinalCheck
    \/ HandlerCloseBrowser
    \/ AwaitCloseBrowser
    \/ LoginReraise
    \/ CloseBrowser

SpecLogin == InitLogin /\ [][NextLogin]_vars

----------------------------------------------------------------------------
(* ChaseSession.login_two *)

\* range(60) of the landing-page loop
LandingPolls == 60

LandingTimeout ==
    "Failed to login to Chase. Landing page not reached after 60 seconds."

\* login has returned True and the caller calls login_two(code): the session
\* still holds the password, the page is wherever the site left it.
InitLoginTwo ==
    /\ order_pc = "idle"
    /\ price_type = "MARKET"
    /\ duration = "DAY"
    /\ order_type = "BUY"
    /\ limit_price = 0
    /\ stop_price = 0
    /\ after_hours = TRUE
    /\ dry_run = TRUE
    /\ accept_warning = TRUE
    /\ i = 0
    /\ order_messages = EmptyMessages
    /\ log = <<>>
    /\ shown = {}
    /\ missing = {}
    /\ result = "idle"
    /\ error = ""
    /\ browser = "running"
    /\ login_pc = "done"
    /\ password \in Passwords
    /\ last_four \in LastFours
    /\ url \in Urls
    /\ polls = 0
    /\ radio_buttons = <<>>
    /\ selected = <<>>
    /\ exc = ""
    /\ login_result = "returned"
    /\ login_value = TRUE
    /\ login_error = <<>>
    /\ loop_running = TRUE
    /\ tasks = {}
    /\ two_pc = "start"
    /\ two_polls = 0
    /\ two_result = "running"
    /\ two_value = FALSE
    /\ ProfileIdle
    /\ FetchIdle
    /\ TVIdle
    /\ AccountIdle
    /\ ParseIdle

\* what an action of login_two leaves alone besides its own state
notLoginTwo == <<orderState, login_pc, password, last_four, polls,
                 radio_buttons, selected, login_result, login_value,
                 login_error, profileVars, fetchVars, tvVars,
                 accountVars, parseVars>>

\* return <value> from _login_two_async
TwoReturn(value) ==
    /\ two_pc' = "done"
    /\ two_result' = "returned"
    /\ two_value' = value
    /\ loop_running' = FALSE
    /\ exc' = exc

\* an exception is raised inside the outer try of _login_two_async
TwoExcept(msg) ==
    /\ two_pc' = "except"
    /\ exc' = msg
    /\ UNCHANGED <<two_result, two_value, loop_running>>

TwoGoto(pc) ==
    /\ two_pc' = pc
    /\ UNCHANGED <<exc, two_result, two_value, loop_running>>

OtpInput == "#otpInput"
LegacyOtpField == "#otpcode_input-input-field"
LegacyPwdField == "#password_input-input-field"

\* code = str(code); sleep(2)
TwoStart ==
    /\ two_pc = "start"
    /\ \E u \in Urls : url' = u
    /\ TwoGoto("new_code")
    /\ UNCHANGED <<notLoginTwo, browser, log, two_polls, tasks>>

\* The new code field: type the code, click #next-content.  A timeout of
\* either find is passed over; a falsy code_entry skips the block.
EnterCode ==
    /\ two_pc = "new_code"
    /\ \E o \in {"timeout", "falsy", "found"}, next \in BOOLEAN, u \in Urls :
         /\ url' = u
         /\ log' = IF o # "found" THEN log
                   ELSE log \o <<Ev("send_keys", OtpInput)>>
                            \o (IF next THEN <<Ev("click", "#next-content")>>
                                ELSE <<>>)
         /\ TwoGoto("legacy_code")
    /\ UNCHANGED <<notLoginTwo, browser, two_polls, tasks>>

\* The old code field, tried whatever the first block did: type the code,
\* type self.password, click submit; a timeout of any find ends the block.
EnterLegacyCode ==
    /\ two_pc = "legacy_code"
    /\ \E o \in {"no_otp", "no_pwd", "no_submit", "ok"}, u \in Urls :
         /\ url' = u
         /\ log' =
              CASE o = "no_otp" -> log
                [] o = "no_pwd" -> log \o <<Ev("send_keys", LegacyOtpField)>>
                [] o = "no_submit" ->
                       log \o <<Ev("send_keys", LegacyOtpField),
                                Ev("send_keys", LegacyPwdField)>>
                [] o = "ok" ->
                       log \o <<Ev("send_keys", LegacyOtpField),
                                Ev("send_keys", LegacyPwdField),
                                Ev("click", "button[type=submit]")>>
         /\ TwoGoto("optout")
    /\ UNCHANGED <<notLoginTwo, browser, two_polls, tasks>>

\* sleep(2); on the opt-out page click the two buttons; a timeout is passed
\* over.
TwoOptOut ==
    /\ two_pc = "optout"
    /\ \E u \in Urls, buttons \in BOOLEAN, v \in Urls :
         IF OnOptOut(u) /\ buttons
         THEN /\ log' = log \o <<Ev("click", "Skip this step next time"),
                                 Ev("click", "Save and go to account")>>
              /\ url' = v
         ELSE /\ log' = log
              /\ url' = u
    /\ two_polls' = 0
    /\ TwoGoto("landing_wait")
    /\ UNCHANGED <<notLoginTwo, browser, tasks>>

\* The landing-page wait as a loop without a pass count: it goes round until
\* the landing page shows.
PollLandingUnbounded ==
    /\ two_pc = "landing_wait"
    /\ \E u \in Urls :
         /\ url' = u
         /\ IF OnLanding(u)
            THEN TwoReturn(TRUE)
            ELSE TwoGoto("landing_wait")
    /\ UNCHANGED <<notLoginTwo, browser, log, tasks, two_polls>>

\* One pass of `for _ in range(60)`: sleep(1), return True on the landing
\* page.  After the last pass TimeoutError(error_msg) is raised, inside the
\* outer try.
PollLanding ==
    /\ two_pc = "landing_wait"
    /\ two_polls < LandingPolls
    /\ \E u \in Urls :
         /\ url' = u
         /\ two_polls' = two_polls + 1
         /\ IF OnLanding(u)
            THEN TwoReturn(TRUE)
            ELSE IF two_polls + 1 = LandingPolls
                 THEN TwoExcept(LandingTimeout)
                 ELSE TwoGoto("landing_wait")
    /\ UNCHANGED <<notLoginTwo, browser, log, tasks>>

\* except Exception as e: await self.close_browser() -- the call, inside the
\* running loop: close_browser returns the task it created.
TwoHandlerCloseBrowser ==
    /\ two_pc = "except"
    /\ loop_running
    /\ tasks' = tasks \cup {"_close_browser_async"}
    /\ TwoGoto("await_close")
    /\ UNCHANGED <<notLoginTwo, browser, log, url, two_polls>>

\* The handler going on without awaiting the task close_browser returned.
TwoCloseBrowserNotAwaited ==
    /\ two_pc = "await_close"
    /\ "_close_browser_async" \in tasks
    /\ TwoGoto("handled")
    /\ UNCHANGED <<notLoginTwo, browser, log, url, two_polls, tasks>>

\* The awaited task runs: if self.browser: await self.browser.stop()
TwoAwaitCloseBrowser ==
    /\ two_pc = "await_close"
    /\ "_close_browser_async" \in tasks
    /\ tasks' = tasks \ {"_close_browser_async"}
    /\ browser' = "stopped"
    /\ TwoGoto("handled")
    /\ UNCHANGED <<notLoginTwo, log, url, two_polls>>

\* traceback.print_exc(); print(...); return False
TwoReturnFalse ==
    /\ two_pc = "handled"
    /\ TwoReturn(FALSE)
    /\ UNCHANGED <<notLoginTwo, browser, log, url, two_polls, tasks>>

NextLoginTwo ==
    \/ TwoStart
    \/ EnterCode
    \/ EnterLegacyCode
    \/ TwoOptOut
    \/ PollLanding
    \/ TwoHandlerCloseBrowser
    \/ TwoAwaitCloseBrowser
    \/ TwoReturnFalse

SpecLoginTwo == InitLoginTwo /\ [][NextLoginTwo]_vars

----------------------------------------------------------------------------
(* ChaseSession.__init__ / get_browser: the browser profile of a session *)

\* everything but the profiles, at rest
SessionIdle ==
    /\ order_pc = "idle"
    /\ price_type = "MARKET"
    /\ duration = "DAY"
    /\ order_type = "BUY"
    /\ limit_price = 0
    /\ stop_price = 0
    /\ after_hours = TRUE
    /\ dry_run = TRUE
    /\ accept_warning = TRUE
    /\ i = 0
    /\ order_messages = EmptyMessages
    /\ log = <<>>
    /\ shown = {}
    /\ missing = {}
    /\ result = "idle"
    /\ error = ""
    /\ browser = "running"
    /\ LoginIdle
    /\ LoginTwoIdle

InitProfile ==
    /\ SessionIdle
    /\ ProfileIdle
    /\ FetchIdle
    /\ TVIdle
    /\ AccountIdle
    /\ ParseIdle

notProfile == <<orderState, log, browser, loginVars, twoVars, accountVars,
               parseVars, fetchVars,
                tvVars>>

\* ChaseSession(title=t, profile_path=path): __init__ stores the arguments
\* and runs get_browser, which replaces profile_path by the ZenChase
\* directory under it and starts the browser on that directory when the
\* title is set, on a fresh temporary one otherwise.  The browser comes up
\* with whatever its directory holds.
OpenSession(s) ==
    /\ sess_pc[s] \in {"new", "closed"}
    /\ \E t \in Titles, path \in Paths :
         LET dir == UserDataDir(s, t, path) IN
         /\ title' = [title EXCEPT ![s] = t]
         /\ profile_path' = [profile_path EXCEPT ![s] = ProfileDir(path)]
         /\ user_data_dir' = [user_data_dir EXCEPT ![s] = dir]
         /\ seen' = [seen EXCEPT ![s] = store[dir]]
    /\ sess_pc' = [sess_pc EXCEPT ![s] = "open"]
    /\ UNCHANGED <<notProfile, store>>

\* A completed login: the browser writes the authenticated state into its
\* profile directory.
ProfileLogin(s) ==
    /\ sess_pc[s] = "open"
    /\ store' = [store EXCEPT ![user_data_dir[s]] = title[s]]
    /\ sess_pc' = [sess_pc EXCEPT ![s] = "logged_in"]
    /\ UNCHANGED <<notProfile, title, profile_path, user_data_dir, seen>>

\* close_browser: browser.stop(); a temporary profile goes with its browser.
ProfileClose(s) ==
    /\ sess_pc[s] \in {"open", "logged_in"}
    /\ store' = IF user_data_dir[s] = TempDir(s)
                THEN [store EXCEPT ![TempDir(s)] = "empty"]
                ELSE store
    /\ sess_pc' = [sess_pc EXCEPT ![s] = "closed"]
    /\ UNCHANGED <<notProfile, title, profile_path, user_data_dir, seen>>

NextProfile ==
    \/ \E s \in Sessions : OpenSession(s)
    \/ \E s \in Sessions : ProfileLogin(s)
    \/ \E s \in Sessions : ProfileClose(s)

SpecProfile == InitProfile /\ [][NextProfile]_vars

----------------------------------------------------------------------------
(* account.py: the payloads read and the parsers over them *)

\* Longest list of accounts in a payload.
MaxAccounts == 2

\* Longest "cache" list of a payload.
MaxEntries == 2

\* An account item, as far as the parsers read it: the keys it has and the
\* values under them.
Item(keys, id, mask, value) ==
    [keys |-> keys, accountId |-> id, mask |-> mask, accountValue |-> value]

ItemA == Item({"accountId", "mask", "accountValue"}, "A", "1111", 10)

ItemB == Item({"accountId", "mask"}, "B", "2222", 0)

\* a second item under the id of ItemA
ItemA2 == Item({"accountId", "mask"}, "A", "3333", 0)

ItemNoMask == Item({"accountId"}, "B", "", 0)

ItemNoId == Item({"mask"}, "", "4444", 0)

Items == {ItemA, ItemB, ItemA2, ItemNoMask, ItemNoId}

AccountLists ==
    UNION {[1..n -> Items] : n \in 0..MaxAccounts}

\* the lists that payloads of the site carry in the fetch models
SiteLists == {<<>>, <<ItemA>>, <<ItemA, ItemB>>, <<ItemNoMask>>}

ListInfo(items) == [shape |-> "list", details |-> FALSE, items |-> items]

DictInfo(details, items) ==
    [shape |-> "dict", details |-> details,
     items |-> IF details THEN items ELSE <<>>]

\* the envelopes all_account_info can hold besides None
Envelopes ==
    {ListInfo(l) : l \in AccountLists}
        \cup {DictInfo(TRUE, l) : l \in AccountLists}
        \cup {DictInfo(FALSE, <<>>)}

ListUrl == "/svc/rr/accounts/secure/overview/investment/v1/list"

TilesUrl == "/svc/rr/accounts/secure/v4/dashboard/tiles/list"

MetadataUrl == "/svc/rl/accounts/secure/v1/user/metadata/list"

OtherUrl == "/svc/rl/accounts/secure/v1/other"

\* An entry of a "cache" list: its url, the keys present in its response
\* (those of the nested objects the readers go through included), and the
\* account list or the positions the response carries.
Entry(entry_url, response, accounts, held) ==
    [url |-> entry_url, response |-> response, accounts |-> accounts,
     positions |-> held]

OverviewKeys ==
    {"investmentAccountOverviews", "totalValue", "totalValueChange",
     "investmentAccountDetails"}

TileKeys == {"investmentTiles", "tileDetail", "accountValue",
             "accountValueChange"}

OldEntries ==
    {Entry(OtherUrl, {}, <<>>, <<>>)}
        \cup {Entry(ListUrl, OverviewKeys \ gone, l, <<>>) :
                gone \in {{}, {"investmentAccountOverviews"},
                          {"totalValueChange"}, {"investmentAccountDetails"}},
                l \in SiteLists}

NewEntries ==
    {Entry(OtherUrl, {}, <<>>, <<>>)}
        \cup {Entry(TilesUrl, TileKeys \ gone, <<>>, <<>>) :
                gone \in {{}, {"accountValueChange"}}}
        \cup {Entry(MetadataUrl, {"productInfos"}, l, <<>>) : l \in SiteLists}
        \cup {Entry(MetadataUrl, {}, <<>>, <<>>)}

CacheBody(cache) == [keys |-> {"cache"}, positions |-> <<>>, cache |-> cache]

\* the bodies the two account endpoints may answer with
OldBodies ==
    {NoBody}
        \cup {CacheBody(c) :
                c \in UNION {[1..n -> OldEntries] : n \in 0..MaxEntries}}

NewBodies ==
    {NoBody}
        \cup {CacheBody(c) :
                c \in UNION {[1..n -> NewEntries] : n \in 0..MaxEntries}}

Statuses == {200, 500}

\* what a call of a reader came to: the exception that left it ("" when it
\* returned), the value returned, and the totals of the AllAccount after it
Outcome(e, value, tv, tvc) ==
    [exc |-> e, value |-> value, total_value |-> tv,
     total_value_change |-> tvc]

\* get_investment_json, from `for info in body["cache"]` on: the entry of
\* the list url yields its first overview when the status is 200, having
\* set the totals from it; no such entry yields None.
RECURSIVE ScanOld(_, _, _, _, _)
ScanOld(cache, k, st, tv, tvc) ==
    IF k > Len(cache) THEN Outcome("", NoInfo, tv, tvc)
    ELSE LET info == cache[k] IN
         IF info.url # ListUrl THEN ScanOld(cache, k + 1, st, tv, tvc)
         ELSE IF "investmentAccountOverviews" \notin info.response
              THEN Outcome("KeyError", NoInfo, tv, tvc)
         ELSE IF st # 200 THEN ScanOld(cache, k + 1, st, tv, tvc)
         ELSE IF "totalValue" \notin info.response
              THEN Outcome("KeyError", NoInfo, tv, tvc)
         ELSE IF "totalValueChange" \notin info.response
              THEN Outcome("KeyError", NoInfo, "totalValue", tvc)
         ELSE Outcome("",
                      DictInfo("investmentAccountDetails" \in info.response,
                               info.accounts),
                      "totalValue", "totalValueChange")

GetInvestmentJson(b, st, tv, tvc) ==
    IF "cache" \notin b.keys THEN Outcome("KeyError", NoInfo, tv, tvc)
    ELSE ScanOld(b.cache, 1, st, tv, tvc)

\* get_investment_json_new, from `for info in body["cache"]` on: a tiles
\* entry sets the totals, the metadata entry returns its productInfos.
RECURSIVE ScanNew(_, _, _, _)
ScanNew(cache, k, tv, tvc) ==
    IF k > Len(cache) THEN Outcome("", NoInfo, tv, tvc)
    ELSE LET info == cache[k] IN
         IF info.url = TilesUrl
         THEN IF {"investmentTiles", "tileDetail", "accountValue"}
                     \subseteq info.response
              THEN IF "accountValueChange" \in info.response
                   THEN ScanNew(cache, k + 1, "accountValue",
                                "accountValueChange")
                   ELSE Outcome("KeyError", NoInfo, "accountValue", tvc)
              ELSE Outcome("KeyError", NoInfo, tv, tvc)
         ELSE IF info.url = MetadataUrl
         THEN IF "productInfos" \in info.response
              THEN Outcome("", ListInfo(info.accounts), tv, tvc)
              ELSE Outcome("KeyError", NoInfo, tv, tvc)
         ELSE ScanNew(cache, k + 1, tv, tvc)

GetInvestmentJsonNew(b, tv, tvc) ==
    IF "cache" \notin b.keys THEN Outcome("KeyError", NoInfo, tv, tvc)
    ELSE ScanNew(b.cache, 1, tv, tvc)

\* account_dict after the items from the k-th on have been entered
RECURSIVE Connect(_, _, _)
Connect(items, k, account_dict) ==
    IF k > Len(items) THEN [exc |-> "", none |-> FALSE, dict |-> account_dict]
    ELSE LET item == items[k] IN
         IF ~ ({"accountId", "mask"} \subseteq item.keys)
         THEN [exc |-> "KeyError", none |-> FALSE, dict |-> {}]
         ELSE Connect(items, k + 1,
                      {p \in account_dict : p[1] # item.accountId}
                          \cup {<<item.accountId, <<item.mask>>>>})

\* get_account_connectors: the dict as the set of its (key, value) pairs
GetAccountConnectors(info) ==
    IF info.shape = "None" THEN [exc |-> "", none |-> TRUE, dict |-> {}]
    ELSE IF info.shape = "dict" /\ ~info.details
    THEN [exc |-> "KeyError", none |-> FALSE, dict |-> {}]
    ELSE Connect(info.items, 1, {})

\* the AccountDetails `details` after the items from the k-th on were looked at
RECURSIVE Detail(_, _, _, _)
Detail(items, k, id, details) ==
    IF k > Len(items) THEN details
    ELSE LET item == items[k] IN
         IF "accountId" \notin item.keys
         THEN [details EXCEPT !.exc = "KeyError"]
         ELSE IF item.accountId # id THEN Detail(items, k + 1, id, details)
         ELSE Detail(items, k + 1, id,
                     [details EXCEPT
                        !.mask = IF "mask" \in item.keys
                                 THEN item.mask ELSE "",
                        !.account_value =
                            IF "accountValue" \in item.keys
                            THEN item.accountValue ELSE -1])

\* get_account_details on the AccountDetails `details`
GetAccountDetails(info, id, details) ==
    IF info.shape = "None" THEN [details EXCEPT !.exc = "TypeError"]
    ELSE IF info.shape = "dict" /\ ~info.details
    THEN [details EXCEPT !.exc = "KeyError"]
    ELSE Detail(info.items, 1, id, details)

----------------------------------------------------------------------------
(* The intercepted-response fetches: SymbolHoldings.get_holdings,             *)
(* Order.get_order_statuses, AllAccount.get_investment_json                   *)

Fetchers == {"holdings", "order_statuses", "account_info"}

\* the page each fetch opens
FetchPage(f) ==
    CASE f = "holdings" -> "account_holdings(account_id)"
      [] f = "order_statuses" -> "order_status(account_id)"
      [] f = "account_info" -> "account_info()"

\* The statements with the reload issued before the expectation is entered.
ProgramReloadFirst(f) ==
    IF f = "account_info"
    THEN <<"reload", "register", "wait", "body", "unregister">>
    ELSE <<"get", "sleep", "reload", "register", "wait", "body", "unregister">>

\* The statements of a fetch, in program order.  "register" is the entry of
\* `async with page.expect_response(url)` (`with page.expect_request(url)`
\* in account.py), "unregister" its exit and what follows it.
Program(f) ==
    IF f = "account_info"
    THEN <<"register", "reload", "wait", "body", "unregister">>
    ELSE <<"get", "sleep", "register", "reload", "wait", "body", "unregister">>

\* the keys get_holdings reads from the body, in the order it reads them
HoldingsKeys ==
    <<"asOfTimestamp", "assetAllocationToolEligibleIndicator",
      "cashSweepPositionSummary", "customPositionAllowedIndicator",
      "errorResponses", "performanceAllowedIndicator", "positions",
      "positionsSummary">>

\* the attribute each of them is stored in
HoldingsAttrs ==
    <<"as_of_time", "asset_allocation_tool_eligible_indicator",
      "cash_sweep_position_summary", "custom_position_allowed_indicator",
      "error_responses", "performance_allowed_indicator", "positions",
      "positions_summary">>

AllHoldingsKeys == {HoldingsKeys[k] : k \in DOMAIN HoldingsKeys}

\* a position, of which the base value amount is kept
Position(amount) == [baseValueAmount |-> amount]

PositionLists == {<<>>, <<Position(500)>>, <<Position(500), Position(20)>>}

\* a body with the holdings keys at its top level, those in `gone` left out
FlatBody(gone, held) ==
    [keys |-> AllHoldingsKeys \ gone,
     positions |-> IF "positions" \in gone THEN <<>> ELSE held,
     cache |-> <<>>]

\* the path of holdings_json()
PositionsUrl ==
    "/svc/wr/dwm/secure/gateway/investments/servicing/inquiry-maintenance/digital-investment-positions/v2/positions"

\* a body that wraps the positions response in a "cache" list
EnvelopeBody(held) ==
    CacheBody(<<Entry(PositionsUrl, AllHoldingsKeys, <<>>, held)>>)

HoldingsBodies ==
    {FlatBody({}, held) : held \in PositionLists}
        \cup {FlatBody({key}, <<Position(500)>>) : key \in AllHoldingsKeys}
        \cup {EnvelopeBody(<<Position(500)>>)}

\* the bodies each fetch may decode
Bodies(f) ==
    CASE f = "holdings" -> HoldingsBodies
      [] f = "order_statuses" -> {NoBody, CacheBody(<<>>)}
      [] f = "account_info" -> OldBodies

\* what each fetch's handler returns
Absent(f) == IF f = "holdings" THEN "False" ELSE "None"

\* the exception a wait without a matching response ends with
Timeout(f) ==
    IF f = "account_info" THEN "PlaywrightTimeoutError" ELSE "TimeoutError"

InitFetch ==
    /\ SessionIdle
    /\ ProfileIdle
    /\ TVIdle
    /\ AccountIdle
    /\ ParseIdle
    /\ fetcher \in Fetchers
    /\ fetch_pc = 1
    /\ waiter = "none"
    /\ requests = [l \in FetchLoads |-> "none"]
    /\ fetch_result = "running"
    /\ fetch_value = ""
    /\ fetch_exc = ""
    /\ body = NoBody
    /\ status = 0
    /\ raw_json = NoBody
    /\ positions = <<>>
    /\ assigned = <<>>

notFetch == <<orderState, browser, loginVars, twoVars, profileVars, tvVars,
             parseVars, acct_pc, all_account_info, account_connectors,
             old_json, new_json, reloads>>

\* what the statements before the body is read leave alone
unread == <<body, status, raw_json, positions, assigned, total_value,
            total_value_change>>

\* the fetch is about to run the statement `name`
AtStep(name) ==
    /\ fetch_result = "running"
    /\ fetch_pc \in DOMAIN Program(fetcher)
    /\ Program(fetcher)[fetch_pc] = name

FetchAdvance ==
    /\ fetch_pc' = fetch_pc + 1
    /\ UNCHANGED <<fetcher, fetch_result, fetch_value, fetch_exc>>

\* an exception inside the try that no handler catches
FetchFailUncaught(e) ==
    /\ fetch_result' = "raised"
    /\ fetch_value' = ""
    /\ fetch_exc' = e
    /\ waiter' = "removed"
    /\ UNCHANGED <<fetcher, fetch_pc>>

\* the exception `e` raised inside the try, which the handler of
\* get_investment_json does not name
FetchRaise(e) ==
    /\ fetch_result' = "raised"
    /\ fetch_value' = ""
    /\ fetch_exc' = e
    /\ waiter' = "removed"
    /\ UNCHANGED <<fetcher, fetch_pc>>

\* the exception `e` inside the try: the expectation is left, the handler
\* returns False (holdings) or None (order statuses, account info)
FetchFail(e) ==
    /\ fetch_result' = "failed"
    /\ fetch_value' = Absent(fetcher)
    /\ fetch_exc' = e
    /\ waiter' = "removed"
    /\ UNCHANGED <<fetcher, fetch_pc>>

\* await page.get(<page>): the page may ask for the matching URL as it loads
FetchGet ==
    /\ AtStep("get")
    /\ \E asked \in BOOLEAN :
         requests' = [requests EXCEPT
                        !["get"] = IF asked THEN "inflight" ELSE "none"]
    /\ log' = Append(log, Ev("get", FetchPage(fetcher)))
    /\ FetchAdvance
    /\ UNCHANGED <<notFetch, unread, waiter>>

\* await page.sleep(2)
FetchSleep ==
    /\ AtStep("sleep")
    /\ FetchAdvance
    /\ UNCHANGED <<notFetch, unread, log, waiter, requests>>

\* async with page.expect_response(url) as response_info: -- entry
FetchRegister ==
    /\ AtStep("register")
    /\ waiter' = "registered"
    /\ FetchAdvance
    /\ UNCHANGED <<notFetch, unread, log, requests>>

\* await page.reload()
FetchReload ==
    /\ AtStep("reload")
    /\ \E asked \in BOOLEAN :
         requests' = [requests EXCEPT
                        !["reload"] = IF asked THEN "inflight" ELSE "none"]
    /\ log' = Append(log, Ev("reload", FetchPage(fetcher)))
    /\ FetchAdvance
    /\ UNCHANGED <<notFetch, unread, waiter>>

\* await asyncio.wait_for(response_info.value, timeout=10)
\* (request_context.value in account.py): goes on when a response has
\* fulfilled the expectation, ends with the timeout exception otherwise
FetchWait ==
    /\ AtStep("wait")
    /\ IF waiter = "fulfilled"
       THEN FetchAdvance /\ UNCHANGED waiter
       ELSE FetchFail(Timeout(fetcher))
    /\ UNCHANGED <<notFetch, unread, log, requests>>

\* body_str, _ = await response_info.response_body; json.loads(body_str)
\* (body = request.response().json() in account.py, whose handler does not
\* catch a decoding error)
FetchBody ==
    /\ AtStep("body")
    /\ \E decoded \in BOOLEAN, b \in Bodies(fetcher), st \in Statuses :
         IF decoded
         THEN /\ body' = b
              /\ status' = st
              /\ FetchAdvance
              /\ UNCHANGED waiter
         ELSE /\ IF fetcher = "account_info"
                 THEN FetchRaise("JSONDecodeError")
                 ELSE FetchFail("JSONDecodeError")
              /\ UNCHANGED <<body, status>>
    /\ UNCHANGED <<notFetch, log, requests, raw_json, positions, assigned,
                   total_value, total_value_change>>

\* how many of the holdings keys are read from `b` before one is missing
RECURSIVE Readable(_, _)
Readable(b, k) ==
    IF k > Len(HoldingsKeys) \/ HoldingsKeys[k] \notin b.keys THEN k - 1
    ELSE Readable(b, k + 1)

\* the statements from `self.raw_json = body` on outside the try
ReadHoldingsUnguarded ==
    LET n == Readable(body, 1) IN
    /\ raw_json' = body
    /\ assigned' = <<"raw_json">> \o SubSeq(HoldingsAttrs, 1, n)
    /\ positions' = IF "positions" \in {HoldingsAttrs[k] : k \in 1..n}
                    THEN body.positions ELSE positions
    /\ IF n = Len(HoldingsKeys)
       THEN /\ fetch_result' = "returned"
            /\ fetch_value' = "True"
            /\ fetch_exc' = ""
       ELSE /\ fetch_result' = "raised"
            /\ fetch_value' = ""
            /\ fetch_exc' = "KeyError"
    /\ UNCHANGED <<total_value, total_value_change>>

\* _get_holdings_async from `self.raw_json = body` on: each attribute is
\* set from its key in turn; a missing key ends the call in the handler,
\* with the attributes before it set
ReadHoldings ==
    LET n == Readable(body, 1) IN
    /\ raw_json' = body
    /\ assigned' = <<"raw_json">> \o SubSeq(HoldingsAttrs, 1, n)
    /\ positions' = IF "positions" \in {HoldingsAttrs[k] : k \in 1..n}
                    THEN body.positions ELSE positions
    /\ IF n = Len(HoldingsKeys)
       THEN /\ fetch_result' = "returned"
            /\ fetch_value' = "True"
            /\ fetch_exc' = ""
       ELSE /\ fetch_result' = "failed"
            /\ fetch_value' = "False"
            /\ fetch_exc' = "KeyError"
    /\ UNCHANGED <<total_value, total_value_change>>

\* _get_order_statuses_async: return body
ReadOrderStatuses ==
    /\ fetch_result' = "returned"
    /\ fetch_value' = "body"
    /\ fetch_exc' = ""
    /\ UNCHANGED <<raw_json, positions, assigned, total_value,
                   total_value_change>>

\* get_investment_json from `for info in body["cache"]` on
ReadAccountInfo ==
    LET out == GetInvestmentJson(body, status, total_value,
                                 total_value_change) IN
    /\ total_value' = out.total_value
    /\ total_value_change' = out.total_value_change
    /\ fetch_exc' = out.exc
    /\ fetch_result' = IF out.exc # "" THEN "raised" ELSE "returned"
    /\ fetch_value' = CASE out.exc # "" -> ""
                        [] out.value = NoInfo -> "None"
                        [] OTHER -> "invest_json"
    /\ UNCHANGED <<raw_json, positions, assigned>>

\* Exit of the with-block, and the statements that read the body.
FetchUnregister ==
    /\ AtStep("unregister")
    /\ waiter' = "removed"
    /\ CASE fetcher = "holdings" -> ReadHoldings
         [] fetcher = "order_statuses" -> ReadOrderStatuses
         [] fetcher = "account_info" -> ReadAccountInfo
    /\ fetch_pc' = fetch_pc + 1
    /\ UNCHANGED <<notFetch, log, fetcher, requests, body, status>>

\* The site answers a request in flight: the response fulfils a registered
\* expectation, is seen by one already fulfilled, comes too late for one
\* that was left, and is lost when none was ever entered.
SiteRespond ==
    /\ \E l \in FetchLoads :
         /\ requests[l] = "inflight"
         /\ requests' = [requests EXCEPT ![l] =
                CASE waiter = "none" -> "lost"
                  [] waiter = "registered" -> "captured"
                  [] waiter = "fulfilled" -> "seen"
                  [] waiter = "removed" -> "late"]
    /\ waiter' = IF waiter = "registered" THEN "fulfilled" ELSE waiter
    /\ UNCHANGED <<notFetch, unread, log, fetcher, fetch_pc, fetch_result,
                   fetch_value, fetch_exc>>

NextFetch ==
    \/ FetchGet
    \/ FetchSleep
    \/ FetchRegister
    \/ FetchReload
    \/ FetchWait
    \/ FetchBody
    \/ FetchUnregister
    \/ SiteRespond

SpecFetch == InitFetch /\ [][NextFetch]_vars

----------------------------------------------------------------------------
(* account.py: AllAccount.__init__ *)

\* urls[0]: account_info() returns one string, whose first character is
\* what get_all_account_info passes on as the url to expect
OldUrl == "account_info()[0]"

\* the url get_all_account_info asks account_info_new for
NewUrl == "account_info_new()"

\* what the expectation of a get_investment_json call can come to: no
\* matching request within the wait, a RuntimeError, or a request whose
\* response is read
Waits == {"PlaywrightTimeoutError", "RuntimeError", "response"}

InitAccount ==
    /\ SessionIdle
    /\ ProfileIdle
    /\ FetchIdle
    /\ TVIdle
    /\ ParseIdle
    /\ acct_pc = "old"
    /\ all_account_info = NoInfo
    /\ account_connectors = [exc |-> "", none |-> TRUE, dict |-> {}]
    /\ total_value = "None"
    /\ total_value_change = "None"
    /\ old_json = NoInfo
    /\ new_json = NoInfo
    /\ reloads = 0

notAccount == <<orderState, browser, loginVars, twoVars, profileVars,
                tvVars, parseVars, fetcher, fetch_pc, waiter, requests,
                fetch_result, fetch_value, fetch_exc, raw_json, positions,
                assigned>>

\* the call ended as `out`: the totals are as it left them; an exception
\* leaves get_all_account_info and __init__, a value goes on to `next`
AccountStep(out, next) ==
    /\ total_value' = out.total_value
    /\ total_value_change' = out.total_value_change
    /\ acct_pc' = IF out.exc # "" THEN "raised" ELSE next

\* one with-block: the expectation is entered, the page is reloaded once,
\* and the wait ends as `wait`, with the body `b` and the status `st` when
\* a response is read
Attempt(name, expected, wait, b, st) ==
    /\ reloads' = reloads + 1
    /\ body' = IF wait = "response" THEN b ELSE body
    /\ status' = IF wait = "response" THEN st ELSE status
    /\ log' = log \o <<Ev("expect_request", expected), Ev("reload", name),
                       Ev(wait, name)>>

\* get_investment_json whose result is returned whatever it is
GetOldOnly ==
    /\ acct_pc = "old"
    /\ \E wait \in Waits, b \in OldBodies, st \in Statuses :
         LET out == IF wait = "response"
                    THEN GetInvestmentJson(b, st, total_value,
                                           total_value_change)
                    ELSE Outcome("", NoInfo, total_value, total_value_change)
         IN
         /\ Attempt("get_investment_json", OldUrl, wait, b, st)
         /\ old_json' = out.value
         /\ all_account_info' = out.value
         /\ AccountStep(out, "connectors")
    /\ UNCHANGED <<notAccount, account_connectors, new_json>>

\* invest_json = self.get_investment_json(urls[0]); a value other than None
\* is what get_all_account_info returns
GetOld ==
    /\ acct_pc = "old"
    /\ \E wait \in Waits, b \in OldBodies, st \in Statuses :
         LET out == IF wait = "response"
                    THEN GetInvestmentJson(b, st, total_value,
                                           total_value_change)
                    ELSE Outcome("", NoInfo, total_value, total_value_change)
         IN
         /\ Attempt("get_investment_json", OldUrl, wait, b, st)
         /\ old_json' = out.value
         /\ all_account_info' = out.value
         /\ AccountStep(out, IF out.value = NoInfo THEN "new"
                             ELSE "connectors")
    /\ UNCHANGED <<notAccount, account_connectors, new_json>>

\* if invest_json is None:
\*     invest_json = self.get_investment_json_new(account_info_new())
GetNew ==
    /\ acct_pc = "new"
    /\ \E wait \in Waits, b \in NewBodies :
         LET out == IF wait = "response"
                    THEN GetInvestmentJsonNew(b, total_value,
                                              total_value_change)
                    ELSE Outcome("", NoInfo, total_value, total_value_change)
         IN
         /\ Attempt("get_investment_json_new", NewUrl, wait, b, status)
         /\ new_json' = out.value
         /\ all_account_info' = out.value
         /\ AccountStep(out, "connectors")
    /\ UNCHANGED <<notAccount, account_connectors, old_json>>

\* self.account_connectors = self.get_account_connectors()
GetConnectors ==
    /\ acct_pc = "connectors"
    /\ account_connectors' = GetAccountConnectors(all_account_info)
    /\ acct_pc' = IF account_connectors'.exc # "" THEN "raised" ELSE "done"
    /\ UNCHANGED <<notAccount, log, body, status, all_account_info,
                   total_value, total_value_change, old_json, new_json,
                   reloads>>

NextAccount ==
    \/ GetOld
    \/ GetNew
    \/ GetConnectors

SpecAccount == InitAccount /\ [][NextAccount]_vars

----------------------------------------------------------------------------
(* account.py: the parsers run over an envelope already fetched *)

\* Calls made of each parser on the one envelope.
MaxRuns == 2

AccountIds == {"A", "B"}

InitParse ==
    /\ SessionIdle
    /\ ProfileIdle
    /\ FetchIdle
    /\ TVIdle
    /\ acct_pc = "done"
    /\ all_account_info \in Envelopes
    /\ account_connectors = [exc |-> "", none |-> TRUE, dict |-> {}]
    /\ total_value = "None"
    /\ total_value_change = "None"
    /\ old_json = NoInfo
    /\ new_json = NoInfo
    /\ reloads = 0
    /\ account_id \in AccountIds
    /\ original = all_account_info
    /\ connector_runs = <<>>
    /\ detail_runs = <<>>

notParse == <<orderState, log, browser, loginVars, twoVars, profileVars,
              fetchVars, tvVars, acct_pc, account_connectors, total_value,
              total_value_change, old_json, new_json, reloads>>

\* get_account_connectors(): a new dict built from all_account_info
RunConnectors ==
    /\ Len(connector_runs) < MaxRuns
    /\ connector_runs' =
           Append(connector_runs, GetAccountConnectors(all_account_info))
    /\ UNCHANGED <<notParse, all_account_info, account_id, original,
                   detail_runs>>

\* the AccountDetails a call of get_account_details starts from
DetailsBefore ==
    IF detail_runs = <<>> THEN NewDetails
    ELSE [detail_runs[Len(detail_runs)] EXCEPT !.exc = ""]

\* get_account_details() that takes each item it matched out of the list
RunDetailsConsuming ==
    /\ Len(detail_runs) < MaxRuns
    /\ detail_runs' =
           Append(detail_runs,
                  GetAccountDetails(all_account_info, account_id,
                                    DetailsBefore))
    /\ all_account_info' =
           [all_account_info EXCEPT
              !.items = SelectSeq(all_account_info.items,
                                  LAMBDA item : item.accountId # account_id)]
    /\ UNCHANGED <<notParse, account_id, original, connector_runs>>

\* get_account_details(): reads all_account_info and sets the attributes of
\* the AccountDetails from each item of its account_id
RunDetails ==
    /\ Len(detail_runs) < MaxRuns
    /\ detail_runs' =
           Append(detail_runs,
                  GetAccountDetails(all_account_info, account_id,
                                    DetailsBefore))
    /\ UNCHANGED <<notParse, all_account_info, account_id, original,
                   connector_runs>>

NextParse ==
    \/ RunConnectors
    \/ RunDetails

SpecParse == InitParse /\ [][NextParse]_vars

----------------------------------------------------------------------------
(* realtime.py: TVfetch_technical_analysis and its worker threads *)

TVSymbols == {"NVO", "TM"}

\* Longest list of symbols requested.
MaxSymbols == 3

\* The lists a caller may pass: repeated symbols included.
SymbolLists == UNION {[1..n -> TVSymbols] : n \in 0..MaxSymbols}

\* exchanges = ["NASDAQ", "NYSE"]
Exchanges == <<"NASDAQ", "NYSE">>

\* the dict returned for a symbol found on an exchange
AnalysisOf(symbol, exchange) == <<symbol, exchange>>

\* {"Symbol": symbol, "Error": f"Error fetching data for {symbol}: ..."}
ErrorOf(symbol) == <<symbol, "Error">>

InitTV ==
    /\ SessionIdle
    /\ ProfileIdle
    /\ FetchIdle
    /\ AccountIdle
    /\ ParseIdle
    /\ symbols \in SymbolLists
    /\ threads = <<>>
    /\ analysis_data = [w \in DOMAIN symbols |-> <<>>]
    /\ not_found = [w \in DOMAIN symbols |-> {}]
    /\ results = {}
    /\ lock = 0
    /\ tv_pc = "start"
    /\ joined = 0
    /\ df = {}

notTV == <<orderState, log, browser, loginVars, twoVars, profileVars,
           fetchVars, accountVars, parseVars>>

\* for symbol in symbols: thread = Thread(target=worker, args=(symbol,));
\* threads.append(thread); thread.start() -- one pass; the worker starts in
\* fetch_technical_analysis, at the first exchange.
StartThread ==
    /\ tv_pc = "start"
    /\ Len(threads) < Len(symbols)
    /\ threads' = Append(threads, Exchanges[1])
    /\ UNCHANGED <<notTV, symbols, analysis_data, not_found, results, lock,
                   tv_pc, joined, df>>

\* the first loop is over
StartJoining ==
    /\ tv_pc = "start"
    /\ Len(threads) = Len(symbols)
    /\ tv_pc' = "join"
    /\ UNCHANGED <<notTV, symbols, threads, analysis_data, not_found, results,
                   lock, joined, df>>

\* One pass of `for exchange in exchanges` in worker w: the lookup returns
\* (the dict for that exchange is returned) or raises (`continue`); after
\* the last exchange the error dict is returned.
Lookup(w) ==
    /\ w \in DOMAIN threads
    /\ \E k \in DOMAIN Exchanges, found \in BOOLEAN :
         LET exchange == Exchanges[k] IN
         /\ threads[w] = exchange
         /\ IF found
            THEN /\ analysis_data' = [analysis_data EXCEPT
                                        ![w] = AnalysisOf(symbols[w], exchange)]
                 /\ not_found' = not_found
                 /\ threads' = [threads EXCEPT ![w] = "acquire"]
            ELSE /\ not_found' = [not_found EXCEPT ![w] = @ \cup {exchange}]
                 /\ IF k < Len(Exchanges)
                    THEN /\ threads' = [threads EXCEPT ![w] = Exchanges[k + 1]]
                         /\ analysis_data' = analysis_data
                    ELSE /\ threads' = [threads EXCEPT ![w] = "acquire"]
                         /\ analysis_data' = [analysis_data EXCEPT
                                                ![w] = ErrorOf(symbols[w])]
    /\ UNCHANGED <<notTV, symbols, results, lock, tv_pc, joined, df>>

\* with lock: -- entry
Acquire(w) ==
    /\ w \in DOMAIN threads
    /\ threads[w] = "acquire"
    /\ lock = 0
    /\ lock' = w
    /\ threads' = [threads EXCEPT ![w] = "write"]
    /\ UNCHANGED <<notTV, symbols, analysis_data, not_found, results, tv_pc,
                   joined, df>>

\* results[symbol] = analysis_data
WriteResult(w) ==
    /\ w \in DOMAIN threads
    /\ threads[w] = "write"
    /\ results' = {r \in results : r[1] # symbols[w]}
                      \cup {<<symbols[w], analysis_data[w]>>}
    /\ threads' = [threads EXCEPT ![w] = "release"]
    /\ UNCHANGED <<notTV, symbols, analysis_data, not_found, lock, tv_pc,
                   joined, df>>

\* with lock: -- exit; the worker ends
Release(w) ==
    /\ w \in DOMAIN threads
    /\ threads[w] = "release"
    /\ lock' = 0
    /\ threads' = [threads EXCEPT ![w] = "done"]
    /\ UNCHANGED <<notTV, symbols, analysis_data, not_found, results, tv_pc,
                   joined, df>>

\* A pass of the second loop that does not wait for its thread.
JoinThreadNoWait ==
    /\ tv_pc = "join"
    /\ joined < Len(threads)
    /\ joined' = joined + 1
    /\ UNCHANGED <<notTV, symbols, threads, analysis_data, not_found, results,
                   lock, tv_pc, df>>

\* for thread in threads: thread.join() -- one pass, which blocks until
\* that thread has ended
JoinThread ==
    /\ tv_pc = "join"
    /\ joined < Len(threads)
    /\ threads[joined + 1] = "done"
    /\ joined' = joined + 1
    /\ UNCHANGED <<notTV, symbols, threads, analysis_data, not_found, results,
                   lock, tv_pc, df>>

\* df = pd.DataFrame.from_dict(results, orient='index'); return df
TVReturn ==
    /\ tv_pc = "join"
    /\ joined = Len(threads)
    /\ df' = results
    /\ tv_pc' = "done"
    /\ UNCHANGED <<notTV, symbols, threads, analysis_data, not_found, results,
                   lock, joined>>

NextTV ==
    \/ StartThread
    \/ StartJoining
    \/ \E w \in 1..MaxSymbols : Lookup(w)
    \/ \E w \in 1..MaxSymbols : Acquire(w)
    \/ \E w \in 1..MaxSymbols : WriteResult(w)
    \/ \E w \in 1..MaxSymbols : Release(w)
    \/ JoinThread
    \/ TVReturn

SpecTV == InitTV /\ [][NextTV]_vars

----------------------------------------------------------------------------
(* Claims about place_order, checked under SpecOrder *)

Done == order_pc = "done"
Returned == Done /\ result = "returned"
Raised == Done /\ result = "raised"

\* C1: with dry_run=True the submit control #submitOrder is never clicked,
\* whatever the page shows or hides.
C1_DryRunNeverSubmits == dry_run => ~Clicked(SubmitBtn)

\* a dry run that reached the preview and returned it
C1_Witness ==
    /\ dry_run
    /\ Returned
    /\ TradeWrapper \in shown
    /\ order_messages["ORDER PREVIEW"] = PreviewText

\* C2: with dry_run=True place_order halts no later than the preview stage:
\* it never clicks #confirmAfterHoursOrder, and the returned messages have
\* AFTER HOURS WARNING and ORDER CONFIRMATION empty.
C2_DryRunHaltsAtPreview ==
    dry_run =>
        /\ ~Clicked(ConfirmBtn)
        /\ Returned => /\ order_messages["AFTER HOURS WARNING"] = ""
                       /\ order_messages["ORDER CONFIRMATION"] = ""

\* The pairs the validation table calls invalid.
InvalidPair ==
    \/ price_type = "MARKET" /\ duration \notin {"DAY", "ON_THE_CLOSE"}
    \/ price_type \in {"STOP", "STOP_LIMIT"}
           /\ duration \notin {"DAY", "GOOD_TILL_CANCELLED"}

Rejected ==
    /\ Returned
    /\ order_messages["ORDER INVALID"] \in {MarketInvalid, StopInvalid}

\* C3: for every (price_type, duration) pair: an invalid pair never has the
\* preview or submit control clicked, and once its price type is selected the
\* call has returned the validation text under ORDER INVALID (a call that
\* returns earlier reports the failed page load there); a valid pair is
\* never rejected by the validation, and a call with a valid pair that
\* returns after selecting the price type has requested the preview.
C3_ValidationTable ==
    /\ InvalidPair => ~Clicked(PreviewBtn) /\ ~Clicked(SubmitBtn)
    /\ InvalidPair /\ Clicked(PriceLabel(price_type)) =>
           /\ Rejected
           /\ order_messages["ORDER INVALID"] =
                  (IF price_type = "MARKET" THEN MarketInvalid ELSE StopInvalid)
    /\ InvalidPair /\ Returned =>
           order_messages["ORDER INVALID"] \in
               {IF price_type = "MARKET" THEN MarketInvalid ELSE StopInvalid,
                LoadFailed(LoadTries - 1)}
    /\ ~InvalidPair => ~Rejected
    /\ ~InvalidPair /\ Returned /\ Clicked(PriceLabel(price_type)) =>
           Clicked(PreviewBtn)

\* a STOP_LIMIT order with an invalid duration, rejected
C3_Witness ==
    /\ price_type = "STOP_LIMIT"
    /\ duration = "ON_THE_CLOSE"
    /\ Rejected

\* C4: an order with an invalid (price_type, duration) pair is rejected
\* before any site interaction: no navigation, reload, symbol entry or click
\* precedes the rejection.
C4_RejectedBeforeInteraction == Rejected => log = <<>>

\* C5: a LIMIT or STOP_LIMIT order without a limit price, or a STOP or
\* STOP_LIMIT order without a stop price, is rejected before the preview is
\* requested.
C5_MissingPriceRejected ==
    (\/ price_type \in {"LIMIT", "STOP_LIMIT"} /\ limit_price = 0
     \/ price_type \in {"STOP", "STOP_LIMIT"} /\ stop_price = 0)
        => ~Clicked(PreviewBtn)

\* C6: the returned ORDER CONFIRMATION is non-empty if and only if the site
\* displayed an order confirmation for a submitted order.
C6_ConfirmationMeansPlaced ==
    Returned =>
        (order_messages["ORDER CONFIRMATION"] # ""
            <=> (AlertTitle \in shown /\ Clicked(SubmitBtn)))

\* C7: if #previewOrder cannot be found or clicked, place_order raises to the
\* caller and the submit control is never clicked in that call.
C7_NoPreviewButtonIsFatal ==
    PreviewBtn \in missing =>
        /\ Raised
        /\ error = NoPreviewButton
        /\ ~Clicked(SubmitBtn)

C7_Witness == PreviewBtn \in missing /\ Raised

\* C8: when the accept, submit or after-hours confirm button is missing where
\* it is required, place_order raises to the caller and performs no later
\* stage.
C8_MissingRequiredControlIsFatal ==
    missing \cap {AcceptBtn, SubmitBtn, ConfirmBtn} # {} => Raised

\* C9: whenever place_order fails with an exception, the browser has been
\* closed before the exception reaches the caller.
C9_BrowserClosedOnOrderFailure == Raised => browser = "stopped"

\* C28: a blocking prompt the caller has not authorised halts place_order
\* at its stage.  With accept_warning=False and the soft warning shown the
\* call has returned the warning text under WARNING and has clicked neither
\* accept nor submit nor the after-hours confirm; with after_hours=False and
\* the after-hours notice shown it has returned the notice text under AFTER
\* HOURS WARNING and has not clicked the after-hours confirm.
C28_UnauthorisedPromptHalts ==
    /\ (SoftWarning \in shown /\ ~accept_warning) =>
           /\ Returned
           /\ order_messages["WARNING"] = WarningText
           /\ ~Clicked(AcceptBtn)
           /\ ~Clicked(SubmitBtn)
           /\ ~Clicked(ConfirmBtn)
    /\ (AfterHoursModal \in shown /\ ~after_hours) =>
           /\ Returned
           /\ order_messages["AFTER HOURS WARNING"] = AfterHoursText
           /\ ~Clicked(ConfirmBtn)

\* a real order (not a dry run) stopped by the soft warning
C28_Witness ==
    /\ ~dry_run
    /\ ~accept_warning
    /\ SoftWarning \in shown
    /\ Returned
    /\ order_messages["WARNING"] = WarningText

\* C29: an optional element that does not appear is not an error: the step
\* that misses the invalid-order message, the soft-warning page or the
\* after-hours modal records the fixed text under the stage's label and
\* moves to the next stage, and the call is still running.
C29_MissingOptionalElementIsRecorded ==
    [][/\ (order_pc = "invalid_msg" /\ InvalidBox \notin shown') =>
             /\ order_messages'["ORDER INVALID"] = NoInvalidMessage
             /\ order_pc' = "warning"
             /\ result' = "running"
       /\ (order_pc = "warning" /\ SoftWarning \notin shown') =>
             /\ order_messages'["WARNING"] = NoWarningPage
             /\ order_pc' = "order_preview"
             /\ result' = "running"
       /\ (order_pc = "after_hours" /\ AfterHoursModal \notin shown') =>
             /\ order_messages'["AFTER HOURS WARNING"] = NoAfterHoursPage
             /\ order_pc' = "confirmation"
             /\ result' = "running"]_vars

\* the call reached the confirmation stage with none of the three optional
\* elements shown and the three fixed texts recorded
C29_Witness ==
    /\ order_pc = "confirmation"
    /\ shown \cap {InvalidBox, SoftWarning, AfterHoursModal} = {}
    /\ order_messages["ORDER INVALID"] = NoInvalidMessage
    /\ order_messages["WARNING"] = NoWarningPage
    /\ order_messages["AFTER HOURS WARNING"] = NoAfterHoursPage

\* C32: the step that clicks the submit control is taken with the preview
\* control clicked, "No invalid order message found." recorded and the
\* order-preview text captured by it; the step that records the absent
\* invalid-order message directly follows the click on the preview control;
\* and the preview control is clicked only with the page loaded correctly,
\* the symbol typed into its quote box.
C32_SubmitFollowsLoadPreviewCheckCapture ==
    [][/\ log' = Append(log, Ev("click", SubmitBtn)) =>
             /\ Clicked(PreviewBtn)
             /\ order_messages["ORDER INVALID"] = NoInvalidMessage
             /\ InvalidBox \notin shown
             /\ TradeWrapper \in shown'
             /\ order_messages'["ORDER PREVIEW"] = PreviewText
       /\ (/\ order_messages["ORDER INVALID"] # NoInvalidMessage
           /\ order_messages'["ORDER INVALID"] = NoInvalidMessage) =>
             /\ log # <<>>
             /\ log[Len(log)] = Ev("click", PreviewBtn)
             /\ order_messages["ORDER INVALID"] = PageLoaded
       /\ log' = Append(log, Ev("click", PreviewBtn)) =>
             /\ order_messages["ORDER INVALID"] = PageLoaded
             /\ \E k \in DOMAIN log : log[k] = Ev("send_keys", QuoteBox)
             /\ ~Clicked(SubmitBtn)]_vars

\* the order was submitted and the call returned its confirmation
C32_Witness ==
    /\ Clicked(SubmitBtn)
    /\ Clicked(PreviewBtn)
    /\ Returned
    /\ order_messages["ORDER PREVIEW"] = PreviewText

\* positions in the log of the navigations made by the page-load loop
LoadGets ==
    {k \in DOMAIN log : log[k] = Ev("get", "order_page(account_id)")}

----------------------------------------------------------------------------
(* Claims about login, checked under SpecLogin *)

\* C10: whenever login raises to the caller, the browser has been stopped
\* first; no execution of login ends in an exception with the browser still
\* running, and the stop task created inside the running loop has been run.
C10_LoginFailureStopsBrowser ==
    login_result = "raised" =>
        /\ browser = "stopped"
        /\ "_close_browser_async" \notin tasks

\* login raised for an unknown page state, after close_browser was called
\* from inside the running loop
C10_Witness ==
    /\ login_result = "raised"
    /\ exc = UnknownPageState
    /\ browser = "stopped"

LastEvent == IF log = <<>> THEN <<>> ELSE log[Len(log)]

LoginReturned(value) == login_result = "returned" /\ login_value = value

\* C12: login returns False only in a state whose URL contains the landing
\* page, and returns True only immediately after a 2FA destination was
\* submitted (the SMS Next button or the legacy submit button was the last
\* thing clicked); on the landing page right after the credentials it
\* returns False at once, with no 2FA probe in between.
C12_ReturnValues ==
    /\ [](LoginReturned(FALSE) => OnLanding(url))
    /\ [](LoginReturned(TRUE) =>
             LastEvent \in {Ev("click", "#next-content"),
                            Ev("click", "button[type=submit]")})
    /\ [][(login_pc = "landing_check" /\ OnLanding(url)) =>
             (login_result' = "returned" /\ login_value' = FALSE
              /\ log' = log)]_vars

\* login returned False on the landing page with the sign-in click as the
\* last thing it did
C12_Witness ==
    /\ LoginReturned(FALSE)
    /\ OnLanding(url)
    /\ LastEvent = Ev("click", "#signin-button")

Probed(target) == \E k \in DOMAIN log : log[k] = Ev("find", target)

\* the 2FA probes are over: the flow is at the opt-out check or beyond it
PastProbes == login_pc \in {"optout", "except", "await_close", "reraise", "done"}

\* C13: the 2FA probes run in the order push, text message, legacy, and a
\* probe that times out always leads to the next one: whenever the push and
\* the text-message probes both failed, the legacy dropdown is probed, also
\* when the options list itself was found.
C13_LegacyProbedAfterSmsFails ==
    (PastProbes /\ Probed("mds-radio-group") /\ ~LoginReturned(TRUE))
        => Probed(LegacyDropdown)

\* C14: once a push challenge is detected, a poll of the 120-poll window
\* that finds the landing page makes login return False with no further
\* local input: while the push is awaited nothing has been selected and
\* neither Next nor submit has been clicked, and the returning poll itself
\* selects nothing and performs no page action.
C14_PushApprovedReturnsFalse ==
    /\ [](login_pc = "push_wait" =>
             /\ selected = <<>>
             /\ ~Clicked("#next-content")
             /\ ~Clicked("button[type=submit]"))
    /\ [][(login_pc = "push_wait" /\ OnLanding(url')) =>
             (login_result' = "returned" /\ login_value' = FALSE
              /\ selected' = selected /\ log' = log)]_vars

\* login returned False from inside the push window, at a poll after the
\* first and before the last
C14_Witness ==
    /\ LoginReturned(FALSE)
    /\ LastEvent = Ev("find", "text=approve")
    /\ polls > 1
    /\ polls < PushPolls
    /\ selected = <<>>

\* C15: when a push challenge is detected and the landing page is not
\* reached in any of the 120 polls, login raises a timeout error: it neither
\* goes on to the text-message flow nor returns True.
C15_PushTimeoutRaises ==
    (polls = PushPolls) =>
        /\ login_pc \notin {"sms", "optout"}
        /\ ~Probed("mds-radio-group")
        /\ ~LoginReturned(TRUE)

\* the caller supplied as many digits as the labels show
FullLastFour == \A d \in LabelDigits : Len(d) = Len(last_four)

\* positions (from 1) of the presented options whose suffix is last_four
SuffixHits == {k \in DOMAIN radio_buttons : radio_buttons[k] = last_four}

NoLabelMatches(buttons) ==
    \A k \in DOMAIN buttons : ~LabelMatches(last_four, buttons[k])

\* C34: the step that meets a radio group none of whose labels holds the
\* caller's last four digits sets no selected-index and does not fail: it
\* clicks Next and returns True, or, where the Next control does not
\* appear, leaves the text-message flow with login still running; it never
\* raises and never returns False.
C34_NoMatchStillClicksNext ==
    [][(/\ login_pc = "sms"
        /\ radio_buttons' # <<>>
        /\ NoLabelMatches(radio_buttons')) =>
           /\ selected' = <<>>
           /\ \/ /\ log' = log \o <<Ev("find", "mds-radio-group"),
                                    Ev("click", "#next-content")>>
                 /\ login_result' = "returned"
                 /\ login_value' = TRUE
              \/ /\ log' = Append(log, Ev("find", "mds-radio-group"))
                 /\ login_result' = "running"
                 /\ login_pc' = "optout"]_vars

\* two options were presented, neither with the caller's digits; none was
\* selected, Next was clicked and login returned True
C34_Witness ==
    /\ LoginReturned(TRUE)
    /\ Clicked("#next-content")
    /\ Len(radio_buttons) = MaxButtons
    /\ NoLabelMatches(radio_buttons)
    /\ selected = <<>>

\* C17: when login ends on a page that is none of the known states, the
\* error it raises carries the location of that page.
C17_UnknownPageErrorCarriesLocation ==
    (login_result = "raised" /\ exc = UnknownPageState)
        => \E k \in DOMAIN login_error : login_error[k] = url

\* C18: the password is held only while a login attempt runs: once the
\* attempt is over (login raised, or returned False with no second step
\* pending), the stored password is empty.
C18_PasswordClearedAfterLogin ==
    (login_result = "raised" \/ LoginReturned(FALSE)) => password = ""

\* C26: a False result from login means the attempt failed: whenever login
\* returns False the session is not authenticated (the page is not the
\* landing page), so a caller that stops on False stops only failed logins.
C26_FalseMeansLoginFailed ==
    LoginReturned(FALSE) => ~OnLanding(url)

----------------------------------------------------------------------------
(* Claims about login_two, checked under SpecLoginTwo *)

\* C11: if the landing page is not reached within the 60 polls that follow
\* the code submission, login_two raises a login-timeout error to the caller;
\* it does not return a value.
C11_LandingTimeoutRaises ==
    (two_pc = "done" /\ two_polls = LandingPolls /\ ~OnLanding(url))
        => two_result = "raised"

\* the code was typed into the field `field`
Typed(field) == \E k \in DOMAIN log : log[k] = Ev("send_keys", field)

\* C35: in one call of login_two the code is typed into the new code field
\* or into the legacy code field, never into both, whatever fields the
\* page presents.
C35_CodeTypedAtMostOnce == ~(Typed(OtpInput) /\ Typed(LegacyOtpField))

\* C36: login_two has returned True only with the page on the landing page,
\* and False only with the browser stopped, the task that stops it having
\* run to its end.
C36_TrueOnLandingFalseAfterClose ==
    two_result = "returned" =>
        /\ two_value => OnLanding(url)
        /\ ~two_value =>
               /\ browser = "stopped"
               /\ "_close_browser_async" \notin tasks

\* the landing page was not reached in 60 polls and login_two returned
\* False, the browser stopped
C36_Witness ==
    /\ two_result = "returned"
    /\ ~two_value
    /\ two_polls = LandingPolls
    /\ browser = "stopped"

----------------------------------------------------------------------------
(* Claims about the browser profile, checked under SpecProfile *)

\* C19: persisted state is keyed by the title: two sessions with different
\* titles and the same profile_path run on distinct directories, and none
\* of them starts with the state written under the other's title.
C19_StateKeyedByTitle ==
    \A s, t \in Sessions :
        (/\ s # t
         /\ sess_pc[s] # "new"
         /\ sess_pc[t] # "new"
         /\ title[s] # title[t]
         /\ profile_path[s] = profile_path[t])
        => /\ user_data_dir[s] # user_data_dir[t]
           /\ seen[s] # title[t]

----------------------------------------------------------------------------
(* Claims about the intercepted-response fetches, checked under SpecFetch *)

\* C20: in every intercepted-response fetch the expectation for the
\* matching URL is entered before the reload that gives rise to the
\* request: the reload's request never exists without an expectation, and
\* its response, however early it completes, is never lost.
C20_WaiterRegisteredBeforeReload ==
    /\ requests["reload"] # "none" => waiter # "none"
    /\ requests["reload"] # "lost"

\* the reload's response completed before the fetch began to wait for it,
\* and the expectation caught it
C20_Witness ==
    /\ AtStep("wait")
    /\ requests["reload"] = "captured"
    /\ waiter = "fulfilled"

----------------------------------------------------------------------------
(* Claims about TVfetch_technical_analysis, checked under SpecTV *)

Requested == {symbols[w] : w \in DOMAIN symbols}

WorkersOf(symbol) == {w \in DOMAIN symbols : symbols[w] = symbol}

\* C27: whatever the symbols and the interleaving of the workers,
\* TVfetch_technical_analysis returns only after every worker has ended,
\* and the frame it returns has exactly one row for each distinct requested
\* symbol, written by a worker of that symbol; a worker whose lookup failed
\* on both exchanges ended with the error entry of its symbol, and no other
\* worker did.  At no time are two workers inside the locked write.
C27_AllWorkersJoinedOneRowPerSymbol ==
    /\ Cardinality({w \in DOMAIN threads :
                        threads[w] \in {"write", "release"}}) <= 1
    /\ tv_pc = "done" =>
        /\ Len(threads) = Len(symbols)
        /\ \A w \in DOMAIN threads : threads[w] = "done"
        /\ lock = 0
        /\ {r[1] : r \in df} = Requested
        /\ Cardinality(df) = Cardinality(Requested)
        /\ \A r \in df : \E w \in WorkersOf(r[1]) : r[2] = analysis_data[w]
        /\ \A w \in DOMAIN symbols :
               (not_found[w] = {Exchanges[k] : k \in DOMAIN Exchanges})
                   <=> (analysis_data[w] = ErrorOf(symbols[w]))

\* three workers, two of them for the same symbol, one symbol not found on
\* either exchange: the frame has two rows, one of them the error entry
C27_Witness ==
    /\ tv_pc = "done"
    /\ Len(symbols) = MaxSymbols
    /\ Cardinality(df) = 2
    /\ \E r \in df : r[2] = ErrorOf(r[1])

----------------------------------------------------------------------------
(* Claims about the account parsers, checked under SpecParse *)

----------------------------------------------------------------------------
(* Claims about AllAccount.__init__, checked under SpecAccount *)

\* the reloads made so far by the reader `name`
ReloadsOf(name) ==
    Cardinality({k \in DOMAIN log : log[k] = Ev("reload", name)})

\* the wait of the reader `name` ended with the exception or response `wait`
WaitEnded(name, wait) == \E k \in DOMAIN log : log[k] = Ev(wait, name)

NewCalled == ReloadsOf("get_investment_json_new") > 0

\* the ids of the accounts in the envelope
IdsOf(info) == {info.items[k].accountId : k \in DOMAIN info.items}

\* C22: get_investment_json gives up with None on a timeout or a runtime
\* error only after it has reloaded the page three times.
C22_NoneOnlyAfterThirdAttempt ==
    (\E wait \in {"PlaywrightTimeoutError", "RuntimeError"} :
        WaitEnded("get_investment_json", wait))
        => ReloadsOf("get_investment_json") = 3

HasTiles ==
    \E k \in DOMAIN body.cache :
        /\ body.cache[k].url = TilesUrl
        /\ body.cache[k].response = TileKeys

\* C31: whenever get_investment_json_new has returned account data from a
\* body that holds the dashboard-tiles entry, total_value and
\* total_value_change are the values of that entry, wherever in the cache
\* list the entry stands.
C31_TotalsSetForEveryOrdering ==
    (new_json # NoInfo /\ HasTiles) =>
        /\ total_value = "accountValue"
        /\ total_value_change = "accountValueChange"

----------------------------------------------------------------------------
(* Claims about the readers of intercepted responses, checked under SpecFetch *)

\* C21: a fetch whose wait ended without a matching response has not raised:
\* get_holdings returned False, get_order_statuses None and
\* get_investment_json None, and nothing of the object was set.
C21_TimeoutYieldsAbsence ==
    fetch_exc \in {"TimeoutError", "PlaywrightTimeoutError"} =>
        /\ fetch_result = "failed"
        /\ fetcher = "holdings" => fetch_value = "False"
        /\ fetcher = "order_statuses" => fetch_value = "None"
        /\ fetcher = "account_info" => fetch_value = "None"
        /\ raw_json = NoBody /\ assigned = <<>>
        /\ total_value = "None"

\* the reload gave rise to no matching request and get_holdings timed out
C21_Witness ==
    /\ fetcher = "holdings"
    /\ requests["reload"] = "none"
    /\ fetch_exc = "TimeoutError"
    /\ fetch_value = "False"

\* C23: get_holdings, given a body whose "cache" list holds the entry of
\* the positions endpoint with one position of base value amount 500,
\* returns True with exactly that position in positions.
C23_CacheEnvelopeUnwrapped ==
    (/\ fetcher = "holdings"
     /\ fetch_result # "running"
     /\ body = EnvelopeBody(<<Position(500)>>))
        => /\ fetch_value = "True"
           /\ positions = <<Position(500)>>

C37_FalseLeavesHoldingsUnchanged ==
    (fetcher = "holdings" /\ fetch_value = "False") =>
        /\ raw_json = NoBody
        /\ positions = <<>>
        /\ assigned = <<>>


\* ---------------------------------------------------------------------------
\* Termination of login and login_two
\* ---------------------------------------------------------------------------

\* A call of either coroutine, driven by loop.run_until_complete (or awaited
\* as a task): the event loop resumes the coroutine whenever its awaited step
\* has ended, and every probe ends by its timeout, so a coroutine that can
\* take a step eventually takes one.
InitLive == InitLogin \/ InitLoginTwo

NextLive == NextLogin \/ NextLoginTwo

SpecLive ==
    /\ InitLive
    /\ [][NextLive]_vars
    /\ WF_vars(login_result = "running" /\ NextLogin)
    /\ WF_vars(two_result = "running" /\ NextLoginTwo)

====
